---- MODULE Spec2Model ----
(***************************************************************************)
(* Model of the Booner MCP orchestration core:                             *)
(*   - MCPConnector (src/api/mcp_connector.py): the supervisor of the      *)
(*     tool-server processes;                                              *)
(*   - run_agent_task / active_tasks (src/api/app_with_websockets.py):     *)
(*     the background task executor and its task table;                    *)
(*   - ConnectionManager and the two broadcast loops                       *)
(*     (src/api/app_with_websockets.py).                                   *)
(* Everything runs on one asyncio event loop: the code between two awaits  *)
(* of a coroutine is one atomic step, and each action below is one such    *)
(* step.                                                                   *)
(***************************************************************************)
EXTENDS Integers, Sequences, FiniteSets, TLC

VARIABLES
    running_servers,  \* MCPConnector.running_servers: name -> entry
    procs,            \* every OS process the connector has launched, by pid
    call,             \* the in-flight start_server / stop_server coroutines
    clock,            \* the event loop's time() as read by start_server
    batch,            \* the start_all_servers / stop_all_servers coroutine
    lifespan,         \* the lifespan coroutine and the agents it created
    loaded,           \* an MCPConnector built from a file, and its answers
    active_tasks,     \* the global task table: task id -> dict
    game_configs,     \* GameServerAgent.game_configs: game -> config dict
    bg,               \* the run_agent_task coroutine of each task
    status_log,       \* per task, every value assigned to its "status" key
    resp,             \* the last response of GET /tasks/{task_id}
    active_connections, \* per ConnectionManager, its list of websockets
    sock,             \* per websocket, its endpoint coroutine and its peer
    loop,             \* per topic, the state of its broadcast loop
    last_tasks,       \* broadcast_task_updates' local last_tasks
    raised,           \* what the last call of a manager's disconnect raised
    received          \* per websocket, what its peer last got from the task loop

supVars == <<running_servers, procs, call, clock, batch, lifespan, loaded>>

taskVars == <<active_tasks, game_configs, bg, status_log, resp>>

bcVars == <<active_connections, sock, loop, last_tasks, raised, received>>

vars == <<running_servers, procs, call, clock, batch, lifespan, loaded,
          active_tasks,
          game_configs, bg, status_log,
          resp, active_connections, sock, loop, last_tasks, raised, received>>

----------------------------------------------------------------------------
(* Bounds of the model *)

NumCallers == 2
MaxProcs == 2
MaxTasks == 2
MaxSockets == 2
MaxBroadcastTasks == 1
MaxAgents == 2

Callers == 1..NumCallers

----------------------------------------------------------------------------
(* The configuration document (config["mcp"]["servers"]) and the host *)

\* "git" has no "enabled" key and names a binary that is not installed,
\* "memory" has no "enabled" key either, "time" is disabled; "ghost" is a
\* name the document does not hold.
config ==
    [mcp |-> [servers |->
        [filesystem |-> [command |-> "npx", args |-> <<"fs">>, enabled |-> TRUE],
         git        |-> [command |-> "uvx", args |-> <<"git">>],
         memory     |-> [command |-> "npx", args |-> <<"memory">>],
         time       |-> [command |-> "npx", args |-> <<"time">>, enabled |-> FALSE]]]]

\* The order of the keys in the document, which is the order dict.items()
\* yields them in.
config_keys == <<"git", "filesystem", "memory", "time">>

\* The names start_server is called with by callers that name a server.
ServerNames == {"filesystem", "git", "time", "ghost"}

\* The names stop_server is called with: one that can be tracked and one
\* that never is (stop_server does not read the configuration).
StopNames == {"filesystem", "ghost"}

\* The binaries create_subprocess_exec can launch on this host.
Installed == {"npx"}

\* server_config.get("enabled", True)
get_enabled(server_config) ==
    IF "enabled" \in DOMAIN server_config THEN server_config.enabled ELSE TRUE

\* [server_config["command"]] + server_config["args"]
command_of(server_config) == <<server_config.command>> \o server_config.args

NoProc == 0

IdleCall == [op |-> "idle", name |-> "ghost", pc |-> "idle", ret |-> FALSE,
             proc |-> NoProc]

\* No start_all_servers / stop_all_servers call is in flight. In a call,
\* names is the list the for loop runs over, i the position of the loop in
\* it and results the dict built so far.
IdleBatch == [op |-> "idle", caller |-> NoProc, names |-> <<>>, i |-> 1,
              results |-> <<>>]

----------------------------------------------------------------------------
(* Helpers on the running table (a Python dict) *)

DictSet(d, k, v) == [x \in DOMAIN d \cup {k} |-> IF x = k THEN v ELSE d[x]]

DictDel(d, k) == [x \in DOMAIN d \ {k} |-> d[x]]

EmptyDict == [x \in {} |-> 0]

\* The coroutine of caller c returns r: its local variables (the process
\* handle among them) die with it.
Finish(c, op, n, r) ==
    [call EXCEPT ![c] = [op |-> op, name |-> n, pc |-> "done", ret |-> r,
                         proc |-> NoProc]]

\* MCPConnector.get_running_servers
get_running_servers == DOMAIN running_servers

\* MCPConnector.get_available_servers
get_available_servers == DOMAIN config.mcp.servers

----------------------------------------------------------------------------
(* MCPConnector.start_server *)

\* A return of start_server that suspended nowhere.
start_returns(c, n, r) ==
    /\ call' = Finish(c, "start", n, r)
    /\ UNCHANGED <<running_servers, procs, clock>>

\* start_launch without the except clause's return value: a launch error is
\* swallowed and the call goes on to report success.
start_launch_error_ignored(c, n) ==
    IF config.mcp.servers[n].command \notin Installed
    THEN start_returns(c, n, TRUE)
    ELSE /\ Len(procs) < MaxProcs
         /\ procs' = Append(procs, [name |-> n, alive |-> TRUE, sig |-> "none",
                                    mon |-> "none"])
         /\ call' = [call EXCEPT ![c] = [op |-> "start", name |-> n,
                                         pc |-> "spawn", ret |-> FALSE,
                                         proc |-> Len(procs) + 1]]
         /\ UNCHANGED <<running_servers, clock>>

\* Lines 59-65 and 79-81: the launch of the child. The child is forked
\* inside create_subprocess_exec before the coroutine suspends; a launch
\* error is raised without suspending, is caught at line 79, and start_server
\* returns False.
start_launch(c, n) ==
    IF config.mcp.servers[n].command \notin Installed
    THEN start_returns(c, n, FALSE)
    ELSE /\ Len(procs) < MaxProcs
         /\ procs' = Append(procs, [name |-> n, alive |-> TRUE, sig |-> "none",
                                    mon |-> "none"])
         /\ call' = [call EXCEPT ![c] = [op |-> "start", name |-> n,
                                         pc |-> "spawn", ret |-> FALSE,
                                         proc |-> Len(procs) + 1]]
         /\ UNCHANGED <<running_servers, clock>>

\* start_server without the test of line 50.
start_server_no_running_test(c, n) ==
    /\ call[c].pc = "idle"
    /\ IF n \notin DOMAIN config.mcp.servers
       THEN start_returns(c, n, FALSE)
       ELSE IF ~get_enabled(config.mcp.servers[n])
       THEN start_returns(c, n, FALSE)
       ELSE start_launch(c, n)
    /\ UNCHANGED <<batch, lifespan, loaded, taskVars, bcVars>>

\* start_server without the test of line 55.
start_server_no_enabled_test(c, n) ==
    /\ call[c].pc = "idle"
    /\ IF n \notin DOMAIN config.mcp.servers
       THEN start_returns(c, n, FALSE)
       ELSE IF n \in DOMAIN running_servers
       THEN start_returns(c, n, TRUE)
       ELSE start_launch(c, n)
    /\ UNCHANGED <<batch, lifespan, loaded, taskVars, bcVars>>

\* Lines 46-65: the tests of the name, then the launch.
start_server(c, n) ==
    /\ call[c].pc = "idle"
    /\ IF n \notin DOMAIN config.mcp.servers
       THEN start_returns(c, n, FALSE)
       ELSE IF n \in DOMAIN running_servers
       THEN start_returns(c, n, TRUE)
       ELSE IF ~get_enabled(config.mcp.servers[n])
       THEN start_returns(c, n, FALSE)
       ELSE start_launch(c, n)
    /\ UNCHANGED <<batch, lifespan, loaded, taskVars, bcVars>>

\* start_server_resume with a test for an entry recorded in the meantime,
\* which refuses the second of two overlapping calls.
start_server_resume_refusing(c) ==
    /\ call[c].pc = "spawn"
    /\ LET n == call[c].name
           p == call[c].proc
       IN IF n \in DOMAIN running_servers
          THEN /\ call' = Finish(c, "start", n, FALSE)
               /\ UNCHANGED <<running_servers, procs, clock>>
          ELSE /\ running_servers' =
                     DictSet(running_servers, n,
                             [process |-> p,
                              command |-> command_of(config.mcp.servers[n]),
                              started_at |-> clock])
               /\ procs' = [procs EXCEPT ![p].mon = "reading"]
               /\ clock' = clock + 1
               /\ call' = Finish(c, "start", n, TRUE)
    /\ UNCHANGED <<batch, lifespan, loaded, taskVars, bcVars>>

\* Lines 67-77: after the await, record the entry (overwriting whatever is
\* under the name), create the _monitor_logs task and return True.
start_server_resume(c) ==
    /\ call[c].pc = "spawn"
    /\ LET n == call[c].name
           p == call[c].proc
       IN /\ running_servers' =
                 DictSet(running_servers, n,
                         [process |-> p,
                          command |-> command_of(config.mcp.servers[n]),
                          started_at |-> clock])
          /\ procs' = [procs EXCEPT ![p].mon = "reading"]
          /\ clock' = clock + 1
          /\ call' = Finish(c, "start", n, TRUE)
    /\ UNCHANGED <<batch, lifespan, loaded, taskVars, bcVars>>

----------------------------------------------------------------------------
(* MCPConnector._monitor_logs *)

\* Lines 86-91: a line was read and is forwarded to the logger.
monitor_logs_line(p) ==
    /\ p \in 1..Len(procs)
    /\ procs[p].mon = "reading"
    /\ procs[p].alive
    /\ UNCHANGED <<running_servers, procs, call, clock>>
    /\ UNCHANGED <<batch, lifespan, loaded, taskVars, bcVars>>

\* Lines 86-88: readline returns b"" at end of stream and the loop breaks.
\* Nothing else is done: running_servers is not touched.
monitor_logs_eof(p) ==
    /\ p \in 1..Len(procs)
    /\ procs[p].mon = "reading"
    /\ ~procs[p].alive
    /\ procs' = [procs EXCEPT ![p].mon = "ended"]
    /\ UNCHANGED <<running_servers, call, clock>>
    /\ UNCHANGED <<batch, lifespan, loaded, taskVars, bcVars>>

----------------------------------------------------------------------------
(* The child processes *)

\* A child exits: on its own, or as the effect of SIGTERM or SIGKILL.
process_exit(p) ==
    /\ p \in 1..Len(procs)
    /\ procs[p].alive
    /\ procs' = [procs EXCEPT ![p].alive = FALSE]
    /\ UNCHANGED <<running_servers, call, clock>>
    /\ UNCHANGED <<batch, lifespan, loaded, taskVars, bcVars>>

----------------------------------------------------------------------------
(* MCPConnector.stop_server *)

\* Line 119 and after: del self.running_servers[server_name]; a KeyError is
\* caught at line 123 and the call returns False.
stop_server_del(c) ==
    LET n == call[c].name
        p == call[c].proc
    IN IF n \in DOMAIN running_servers
       THEN /\ running_servers' = DictDel(running_servers, n)
            /\ call' = Finish(c, "stop", n, TRUE)
       ELSE /\ running_servers' = running_servers
            /\ call' = Finish(c, "stop", n, FALSE)

\* stop_server without the test of line 103: line 108 raises KeyError for an
\* untracked name and line 123 turns it into False.
stop_server_no_tracked_test(c, n) ==
    /\ call[c].pc = "idle"
    /\ IF n \notin DOMAIN running_servers
       THEN /\ call' = Finish(c, "stop", n, FALSE)
            /\ UNCHANGED <<running_servers, procs, clock>>
       ELSE LET p == running_servers[n].process
            IN IF procs[p].alive
               THEN /\ procs' = [procs EXCEPT ![p].sig =
                                     IF @ = "none" THEN "term" ELSE @]
                    /\ call' = [call EXCEPT ![c] = [op |-> "stop", name |-> n,
                                                    pc |-> "wait", ret |-> FALSE,
                                                    proc |-> p]]
                    /\ UNCHANGED <<running_servers, clock>>
               ELSE /\ \E raises \in BOOLEAN :
                         call' = IF raises
                                 THEN Finish(c, "stop", n, FALSE)
                                 ELSE [call EXCEPT ![c] =
                                          [op |-> "stop", name |-> n,
                                           pc |-> "wait", ret |-> FALSE,
                                           proc |-> p]]
                    /\ UNCHANGED <<running_servers, procs, clock>>
    /\ UNCHANGED <<batch, lifespan, loaded, taskVars, bcVars>>

\* Lines 103-113: the membership test, terminate(), and the suspension in
\* wait_for(process.wait(), 5.0). terminate() on a child that has already
\* exited either does nothing (the transport still holds the Popen object)
\* or raises ProcessLookupError (the transport is closed), which line 123
\* catches.
stop_server(c, n) ==
    /\ call[c].pc = "idle"
    /\ IF n \notin DOMAIN running_servers
       THEN /\ call' = Finish(c, "stop", n, TRUE)
            /\ UNCHANGED <<running_servers, procs, clock>>
       ELSE LET p == running_servers[n].process
            IN IF procs[p].alive
               THEN /\ procs' = [procs EXCEPT ![p].sig =
                                     IF @ = "none" THEN "term" ELSE @]
                    /\ call' = [call EXCEPT ![c] = [op |-> "stop", name |-> n,
                                                    pc |-> "wait", ret |-> FALSE,
                                                    proc |-> p]]
                    /\ UNCHANGED <<running_servers, clock>>
               ELSE /\ \E raises \in BOOLEAN :
                         call' = IF raises
                                 THEN Finish(c, "stop", n, FALSE)
                                 ELSE [call EXCEPT ![c] =
                                          [op |-> "stop", name |-> n,
                                           pc |-> "wait", ret |-> FALSE,
                                           proc |-> p]]
                    /\ UNCHANGED <<running_servers, procs, clock>>
    /\ UNCHANGED <<batch, lifespan, loaded, taskVars, bcVars>>

\* stop_server_wait without the del of line 119: the call returns True and
\* the entry stays.
stop_server_wait_no_del(c) ==
    /\ call[c].pc = "wait"
    /\ ~procs[call[c].proc].alive
    /\ call' = Finish(c, "stop", call[c].name, TRUE)
    /\ UNCHANGED <<running_servers, procs, clock>>
    /\ UNCHANGED <<batch, lifespan, loaded, taskVars, bcVars>>

\* Lines 113, 119-121: process.wait() completed within the grace period.
stop_server_wait(c) ==
    /\ call[c].pc = "wait"
    /\ ~procs[call[c].proc].alive
    /\ stop_server_del(c)
    /\ UNCHANGED <<procs, clock>>
    /\ UNCHANGED <<batch, lifespan, loaded, taskVars, bcVars>>

\* stop_server_timeout with a timer that fires whether or not
\* process.wait() has completed.
stop_server_timeout_regardless(c) ==
    /\ call[c].pc = "wait"
    /\ procs' = [procs EXCEPT ![call[c].proc].sig = "kill"]
    /\ call' = [call EXCEPT ![c].pc = "killwait"]
    /\ UNCHANGED <<running_servers, clock>>
    /\ UNCHANGED <<batch, lifespan, loaded, taskVars, bcVars>>

\* Lines 114-117: the grace period elapsed with the child still running:
\* kill() and suspend in process.wait(), this time without a timeout.
stop_server_timeout(c) ==
    /\ call[c].pc = "wait"
    /\ procs[call[c].proc].alive
    /\ procs' = [procs EXCEPT ![call[c].proc].sig = "kill"]
    /\ call' = [call EXCEPT ![c].pc = "killwait"]
    /\ UNCHANGED <<running_servers, clock>>
    /\ UNCHANGED <<batch, lifespan, loaded, taskVars, bcVars>>

\* Lines 117, 119-121: process.wait() completed after the kill.
stop_server_killwait(c) ==
    /\ call[c].pc = "killwait"
    /\ ~procs[call[c].proc].alive
    /\ stop_server_del(c)
    /\ UNCHANGED <<procs, clock>>
    /\ UNCHANGED <<batch, lifespan, loaded, taskVars, bcVars>>

\* The caller of start_server / stop_server takes the returned value.
call_return(c) ==
    /\ call[c].pc = "done"
    /\ call' = [call EXCEPT ![c] = IdleCall]
    /\ UNCHANGED <<running_servers, procs, clock>>
    /\ UNCHANGED <<batch, lifespan, loaded, taskVars, bcVars>>

----------------------------------------------------------------------------
(* MCPConnector.start_all_servers and stop_all_servers *)

\* The lists that hold every element of S once.
Orderings(S) ==
    {f \in [1..Cardinality(S) -> S] : \A x \in S : \E k \in DOMAIN f : f[k] = x}

\* Lines 134-136: results = {} and the for loop over the items of the
\* document, of which the test of line 136 keeps the enabled ones.
start_all_servers(c) ==
    /\ batch.op = "idle"
    /\ call[c].pc = "idle"
    /\ batch' = [op |-> "start_all", caller |-> c,
                 names |-> SelectSeq(config_keys,
                               LAMBDA n : get_enabled(config.mcp.servers[n])),
                 i |-> 1, results |-> EmptyDict]
    /\ UNCHANGED <<running_servers, procs, call, clock>>
    /\ UNCHANGED <<lifespan, loaded, taskVars, bcVars>>

\* Lines 148-149: results = {} and the for loop over
\* list(self.running_servers.keys()), a list made once: the keys in the
\* order of their insertion, which is any order here.
stop_all_servers(c) ==
    /\ batch.op = "idle"
    /\ call[c].pc = "idle"
    /\ \E keys \in Orderings(DOMAIN running_servers) :
          batch' = [op |-> "stop_all", caller |-> c, names |-> keys,
                    i |-> 1, results |-> EmptyDict]
    /\ UNCHANGED <<running_servers, procs, call, clock>>
    /\ UNCHANGED <<lifespan, loaded, taskVars, bcVars>>

\* Lines 137 / 150, the call: start_server / stop_server for the name the
\* loop stands at.
all_servers_call(c) ==
    /\ batch.op \in {"start_all", "stop_all"}
    /\ batch.caller = c
    /\ batch.i <= Len(batch.names)
    /\ IF batch.op = "start_all"
       THEN start_server(c, batch.names[batch.i])
       ELSE stop_server(c, batch.names[batch.i])

\* all_servers_collect with a loop that is left at the first False.
all_servers_collect_until_false(c) ==
    /\ batch.op \in {"start_all", "stop_all"}
    /\ batch.caller = c
    /\ call[c].pc = "done"
    /\ batch' = [batch EXCEPT
                    !.results = DictSet(@, batch.names[batch.i], call[c].ret),
                    !.i = IF call[c].ret THEN @ + 1 ELSE Len(batch.names) + 1]
    /\ call' = [call EXCEPT ![c] = IdleCall]
    /\ UNCHANGED <<running_servers, procs, clock>>
    /\ UNCHANGED <<lifespan, loaded, taskVars, bcVars>>

\* Lines 137 / 150, the assignment: the awaited call returned, its value is
\* stored under the name and the loop moves on.
all_servers_collect(c) ==
    /\ batch.op \in {"start_all", "stop_all"}
    /\ batch.caller = c
    /\ call[c].pc = "done"
    /\ batch' = [batch EXCEPT
                    !.results = DictSet(@, batch.names[batch.i], call[c].ret),
                    !.i = @ + 1]
    /\ call' = [call EXCEPT ![c] = IdleCall]
    /\ UNCHANGED <<running_servers, procs, clock>>
    /\ UNCHANGED <<lifespan, loaded, taskVars, bcVars>>

\* Lines 139 / 152: the loop is over and results is returned.
all_servers_return(c) ==
    /\ batch.op \in {"start_all", "stop_all"}
    /\ batch.caller = c
    /\ batch.i > Len(batch.names)
    /\ batch' = [batch EXCEPT !.op = IF @ = "start_all" THEN "started_all"
                                     ELSE "stopped_all"]
    /\ UNCHANGED <<running_servers, procs, call, clock>>
    /\ UNCHANGED <<lifespan, loaded, taskVars, bcVars>>

\* The caller of start_all_servers / stop_all_servers takes the dict.
all_servers_taken ==
    /\ batch.op \in {"started_all", "stopped_all"}
    /\ batch' = IdleBatch
    /\ UNCHANGED <<running_servers, procs, call, clock>>
    /\ UNCHANGED <<lifespan, loaded, taskVars, bcVars>>

----------------------------------------------------------------------------
(* MCPConnector.__init__ and _load_config, for any configuration file *)

\* Python values: a dict with its items, a list, a str; what a call
\* returned; the exception a call raised; and no call yet.
PyDict(items) == [type |-> "dict", items |-> items]

PyList == [type |-> "list"]

PyStr == [type |-> "str"]

Returned(value) == [type |-> "return", value |-> value]

Raises(exc) == [type |-> "raise", exc |-> exc]

NotCalled == [type |-> "none"]

\* value[key]: KeyError for a dict without the key, TypeError for a list
\* or a str subscripted with a str.
subscript(value, key) ==
    IF value.type = "raise" THEN value
    ELSE IF value.type # "dict" THEN Raises("TypeError")
    ELSE IF key \notin DOMAIN value.items THEN Raises("KeyError")
    ELSE value.items[key]

\* The files config_path can name: no file, a file that cannot be read, a
\* file that is not JSON, and JSON documents: {}, {"mcp": {}}, [],
\* {"mcp": {"servers": []}}, {"mcp": {"servers": {"filesystem": "npx"}}}
\* and the empty registry {"mcp": {"servers": {}}}.
ConfigFiles ==
    {[kind |-> "missing"], [kind |-> "unreadable"], [kind |-> "not json"],
     [kind |-> "json", value |-> PyDict(EmptyDict)],
     [kind |-> "json", value |-> PyDict([mcp |-> PyDict(EmptyDict)])],
     [kind |-> "json", value |-> PyList],
     [kind |-> "json",
      value |-> PyDict([mcp |-> PyDict([servers |-> PyList])])],
     [kind |-> "json",
      value |-> PyDict([mcp |-> PyDict([servers |->
                           PyDict([filesystem |-> PyStr])])])],
     [kind |-> "json",
      value |-> PyDict([mcp |-> PyDict([servers |-> PyDict(EmptyDict)])])]}

\* Lines 27-34: open and json.load; any exception of the two yields the
\* empty registry, and whatever json.load returns is returned as it is.
load_config(file) ==
    IF file.kind = "json"
    THEN file.value
    ELSE PyDict([mcp |-> PyDict([servers |-> PyDict(EmptyDict)])])

\* self.config["mcp"]["servers"]
servers_of(cfg) == subscript(subscript(cfg, "mcp"), "servers")

\* Lines 158-160 on the connector built from cfg: .keys() is an
\* AttributeError on a list.
get_available_servers_from(cfg) ==
    LET servers == servers_of(cfg)
    IN IF servers.type = "raise" THEN servers
       ELSE IF servers.type # "dict" THEN Raises("AttributeError")
       ELSE Returned(DOMAIN servers.items)

\* Lines 46-65 on the connector built from cfg, which tracks nothing: the
\* tests of lines 46 and 55 stand before the try statement of line 59. On a
\* list, "in" is a search and finds nothing. An entry without "command"
\* raises KeyError at line 60, inside the try statement.
start_server_from(cfg, n) ==
    LET servers == servers_of(cfg)
    IN IF servers.type = "raise" THEN servers
       ELSE IF servers.type = "list" THEN Returned(FALSE)
       ELSE IF n \notin DOMAIN servers.items THEN Returned(FALSE)
       ELSE IF servers.items[n].type # "dict" THEN Raises("AttributeError")
       ELSE Returned(FALSE)

\* Lines 134-139 on the connector built from cfg: .items() is an
\* AttributeError on a list, and .get one on an entry that is a str.
start_all_servers_from(cfg) ==
    LET servers == servers_of(cfg)
    IN IF servers.type = "raise" THEN servers
       ELSE IF servers.type # "dict" THEN Raises("AttributeError")
       ELSE IF \E n \in DOMAIN servers.items : servers.items[n].type # "dict"
       THEN Raises("AttributeError")
       ELSE Returned([n \in DOMAIN servers.items |->
                         start_server_from(cfg, n).value])

\* No connector has been built from a file.
NotLoaded == [file |-> [kind |-> "none"]]

\* Lines 14-25: MCPConnector(config_path).
MCPConnector_init(file) ==
    /\ loaded = NotLoaded
    /\ loaded' = [file |-> file, config |-> load_config(file),
                  available |-> NotCalled, start_all |-> NotCalled,
                  start |-> [n \in ServerNames |-> NotCalled]]
    /\ UNCHANGED <<running_servers, procs, call, clock, batch, lifespan>>
    /\ UNCHANGED <<taskVars, bcVars>>

\* get_available_servers() is called on the connector.
loaded_get_available_servers ==
    /\ loaded # NotLoaded
    /\ loaded' = [loaded EXCEPT
                     !.available = get_available_servers_from(loaded.config)]
    /\ UNCHANGED <<running_servers, procs, call, clock, batch, lifespan>>
    /\ UNCHANGED <<taskVars, bcVars>>

\* start_all_servers() is called on the connector.
loaded_start_all_servers ==
    /\ loaded # NotLoaded
    /\ loaded' = [loaded EXCEPT
                     !.start_all = start_all_servers_from(loaded.config)]
    /\ UNCHANGED <<running_servers, procs, call, clock, batch, lifespan>>
    /\ UNCHANGED <<taskVars, bcVars>>

\* start_server(n) is called on the connector.
loaded_start_server(n) ==
    /\ loaded # NotLoaded
    /\ loaded' = [loaded EXCEPT
                     !.start[n] = start_server_from(loaded.config, n)]
    /\ UNCHANGED <<running_servers, procs, call, clock, batch, lifespan>>
    /\ UNCHANGED <<taskVars, bcVars>>

----------------------------------------------------------------------------
(* lifespan, BaseAgent.initialize and BaseAgent.shutdown *)

\* Lines 133-135 of app_with_websockets.py: the keys of the agents dict in
\* the order of their insertion.
AgentNames == <<"infrastructure", "game_server", "web_server">>

\* The agents the lifespan creates in this model: the first MaxAgents.
LifespanAgents ==
    SubSeq(AgentNames, 1, IF MaxAgents < 3 THEN MaxAgents ELSE 3)

\* required_servers, which is the same list in the three agents
\* (base_agent.py line 260, game_server_agent.py line 36,
\* web_server_agent.py line 36).
required_servers == <<"filesystem", "git", "time">>

\* The coroutine of the lifespan, which makes every call of startup and of
\* teardown itself.
lifespan_task == CHOOSE c \in Callers : \A d \in Callers : c <= d

\* Before startup: every agent has an MCPConnector of its own (base_agent.py
\* line 39) that tracks nothing. running_servers is the table of the
\* connector of the agent the lifespan stands at (agent), and connectors
\* holds the tables of the other agents' connectors.
NewLifespan ==
    [pc |-> "startup", agent |-> 1,
     connectors |-> [k \in DOMAIN LifespanAgents |-> EmptyDict]]

\* agents[name].mcp_connector.running_servers
connector_of(k) ==
    IF k = lifespan.agent THEN running_servers ELSE lifespan.connectors[k]

\* The for loops of lines 137 and 149 go on to the agent at position k, or
\* past the last agent to pc.
lifespan_goes_on(k, pc) ==
    IF k \in DOMAIN LifespanAgents
    THEN /\ running_servers' = connector_of(k)
         /\ lifespan' =
               [lifespan EXCEPT
                  !.agent = k,
                  !.connectors =
                      [j \in DOMAIN LifespanAgents |->
                          IF j = k THEN EmptyDict
                          ELSE IF j = lifespan.agent THEN running_servers
                          ELSE lifespan.connectors[j]]]
    ELSE /\ lifespan' = [lifespan EXCEPT !.pc = pc]
         /\ UNCHANGED running_servers

\* app_with_websockets.py line 139 and base_agent.py lines 46-52: initialize
\* is called for the agent, makes its client and enters the for loop over
\* required_servers.
initialize(c) ==
    /\ lifespan.pc = "startup"
    /\ c = lifespan_task
    /\ batch.op = "idle"
    /\ call[c].pc = "idle"
    /\ batch' = [op |-> "initialize", caller |-> c, names |-> required_servers,
                 i |-> 1, results |-> EmptyDict]
    /\ UNCHANGED <<running_servers, procs, call, clock, lifespan>>
    /\ UNCHANGED <<loaded, taskVars, bcVars>>

\* base_agent.py line 53, the call.
initialize_call(c) ==
    /\ batch.op = "initialize"
    /\ batch.caller = c
    /\ batch.i <= Len(batch.names)
    /\ start_server(c, batch.names[batch.i])

\* base_agent.py lines 53-56: start_server returned; on False initialize
\* returns False and the rest of the list is not started.
initialize_collect(c) ==
    /\ batch.op = "initialize"
    /\ batch.caller = c
    /\ call[c].pc = "done"
    /\ batch' = [batch EXCEPT
                    !.results = DictSet(@, batch.names[batch.i], call[c].ret),
                    !.i = IF call[c].ret THEN @ + 1 ELSE Len(batch.names) + 1]
    /\ call' = [call EXCEPT ![c] = IdleCall]
    /\ UNCHANGED <<running_servers, procs, clock, lifespan>>
    /\ UNCHANGED <<loaded, taskVars, bcVars>>

\* base_agent.py lines 56 / 58 and app_with_websockets.py lines 137-146:
\* initialize returned, its value is not read, and the for loop goes on to
\* the next agent; after the last one the lifespan yields.
initialize_return(c) ==
    /\ batch.op = "initialize"
    /\ batch.caller = c
    /\ batch.i > Len(batch.names)
    /\ batch' = IdleBatch
    /\ lifespan_goes_on(lifespan.agent + 1, "serving")
    /\ UNCHANGED <<procs, call, clock>>
    /\ UNCHANGED <<loaded, taskVars, bcVars>>

\* app_with_websockets.py lines 148-149: the server stops, the lifespan is
\* resumed after its yield and enters the for loop over the agents.
lifespan_teardown ==
    /\ lifespan.pc = "serving"
    /\ batch.op = "idle"
    /\ \A c \in Callers : call[c].pc = "idle"
    /\ running_servers' = connector_of(1)
    /\ lifespan' =
          [pc |-> "teardown", agent |-> 1,
           connectors |->
               [j \in DOMAIN LifespanAgents |->
                   IF j = 1 THEN EmptyDict
                   ELSE IF j = lifespan.agent THEN running_servers
                   ELSE lifespan.connectors[j]]]
    /\ UNCHANGED <<procs, call, clock, batch>>
    /\ UNCHANGED <<loaded, taskVars, bcVars>>

\* app_with_websockets.py line 152 and base_agent.py lines 66-72: shutdown
\* is called for the agent and closes its client. What __aexit__ raises is
\* caught at line 75, below the for loop over required_servers, and
\* shutdown returns; otherwise the for loop is entered.
shutdown(c, aexit_raises) ==
    /\ lifespan.pc = "teardown"
    /\ c = lifespan_task
    /\ batch.op = "idle"
    /\ call[c].pc = "idle"
    /\ IF aexit_raises
       THEN /\ lifespan_goes_on(lifespan.agent + 1, "done")
            /\ UNCHANGED batch
       ELSE /\ batch' = [op |-> "shutdown", caller |-> c,
                         names |-> required_servers, i |-> 1,
                         results |-> EmptyDict]
            /\ UNCHANGED <<running_servers, lifespan>>
    /\ UNCHANGED <<procs, call, clock>>
    /\ UNCHANGED <<loaded, taskVars, bcVars>>

\* base_agent.py line 73, the call.
shutdown_call(c) ==
    /\ batch.op = "shutdown"
    /\ batch.caller = c
    /\ batch.i <= Len(batch.names)
    /\ stop_server(c, batch.names[batch.i])

\* base_agent.py lines 72-73: stop_server returned, its value is not read,
\* and the loop moves on.
shutdown_collect(c) ==
    /\ batch.op = "shutdown"
    /\ batch.caller = c
    /\ call[c].pc = "done"
    /\ batch' = [batch EXCEPT
                    !.results = DictSet(@, batch.names[batch.i], call[c].ret),
                    !.i = @ + 1]
    /\ call' = [call EXCEPT ![c] = IdleCall]
    /\ UNCHANGED <<running_servers, procs, clock, lifespan>>
    /\ UNCHANGED <<loaded, taskVars, bcVars>>

\* base_agent.py line 73 and app_with_websockets.py lines 149-155: shutdown
\* returned and the for loop goes on to the next agent; after the last one
\* the lifespan is over.
shutdown_return(c) ==
    /\ batch.op = "shutdown"
    /\ batch.caller = c
    /\ batch.i > Len(batch.names)
    /\ batch' = IdleBatch
    /\ lifespan_goes_on(lifespan.agent + 1, "done")
    /\ UNCHANGED <<procs, call, clock>>
    /\ UNCHANGED <<loaded, taskVars, bcVars>>

----------------------------------------------------------------------------
(* The task table and run_agent_task *)

\* The agents dict after startup, with the operations each agent exposes.
agents ==
    [infrastructure |-> {"run_task"},
     game_server    |-> {"run_task", "deploy_game_server", "update_game_server",
                         "start_game_server", "stop_game_server",
                         "backup_game_server"},
     web_server     |-> {"run_task", "deploy_web_app", "update_web_app",
                         "configure_nginx_proxy", "setup_monitoring"}]

\* The operation references run_agent_task is given in this model.
OperationRefs ==
    {<<"game_server", "deploy_game_server">>,
     <<"infrastructure", "run_task">>,
     <<"unknown", "operation">>,
     <<"web_server", "deploy_game_server">>}

\* What an agent operation returns: the dict of a finished piece of work, or
\* the {"success": False, "error": ...} dict of a refused one.
Results == {"result", "failure_report"}

\* str(e) of what an agent operation raises; str(TimeoutError()) is "".
Raised == {"boom", ""}

None == "None"

TaskIds == 1..MaxTasks

\* dict.get(key): the value, or None for a missing key
dict_get(d, k) == IF k \in DOMAIN d THEN d[k] ELSE None

\* submit_task with a record that is stored as running.
submit_task_as_running(ref) ==
    /\ Cardinality(DOMAIN active_tasks) < MaxTasks
    /\ LET task_id == Cardinality(DOMAIN active_tasks) + 1
       IN /\ active_tasks' = DictSet(active_tasks, task_id,
                                     [status |-> "running"])
          /\ bg' = DictSet(bg, task_id,
                           [pc |-> "scheduled", agent_name |-> ref[1],
                            method_name |-> ref[2]])
          /\ status_log' = DictSet(status_log, task_id, <<"running">>)
    /\ UNCHANGED resp
    /\ UNCHANGED <<game_configs, supVars, bcVars>>

\* Lines 314-332 (and the same lines of the other nine endpoints): a fresh
\* uuid4, the record {"status": "queued"}, and the background task.
submit_task(ref) ==
    /\ Cardinality(DOMAIN active_tasks) < MaxTasks
    /\ LET task_id == Cardinality(DOMAIN active_tasks) + 1
       IN /\ active_tasks' = DictSet(active_tasks, task_id,
                                     [status |-> "queued"])
          /\ bg' = DictSet(bg, task_id,
                           [pc |-> "scheduled", agent_name |-> ref[1],
                            method_name |-> ref[2]])
          /\ status_log' = DictSet(status_log, task_id, <<"queued">>)
    /\ UNCHANGED resp
    /\ UNCHANGED <<game_configs, supVars, bcVars>>

\* The custom_config bodies POST /game/deploy is given in this model; a
\* request without one has the empty dict here.
CustomConfigs == {EmptyDict, [min_ram |-> 1024], [min_ram |-> 8192]}

\* Lines 312-332: POST /game/deploy, which passes game and custom_config
\* on to run_agent_task as keyword arguments.
deploy_game_server(game, custom_config) ==
    /\ Cardinality(DOMAIN active_tasks) < MaxTasks
    /\ LET task_id == Cardinality(DOMAIN active_tasks) + 1
       IN /\ active_tasks' = DictSet(active_tasks, task_id,
                                     [status |-> "queued"])
          /\ bg' = DictSet(bg, task_id,
                           [pc |-> "scheduled", agent_name |-> "game_server",
                            method_name |-> "deploy_game_server",
                            game |-> game, custom_config |-> custom_config])
          /\ status_log' = DictSet(status_log, task_id, <<"queued">>)
    /\ UNCHANGED resp
    /\ UNCHANGED <<game_configs, supVars, bcVars>>

\* active_tasks[task_id][key] = value
task_set(tasks, task_id, key, value) ==
    [tasks EXCEPT ![task_id] = DictSet(@, key, value)]

\* The except branch without line 244.
task_failed_status_only(tasks, task_id, e) ==
    task_set(tasks, task_id, "status", "failed")

\* Lines 241-244: the except branch of run_agent_task.
task_failed(tasks, task_id, e) ==
    task_set(task_set(tasks, task_id, "status", "failed"), task_id, "error", e)

\* GameServerAgent.deploy_game_server, lines 88-95: game_config is the dict
\* game_configs holds for the game, not a copy of it, and the keys of
\* custom_config it has are overwritten in it.
deploy_game_server_config(game, custom_config) ==
    [game_configs EXCEPT ![game] =
        [key \in DOMAIN @ |-> IF key \in DOMAIN custom_config
                               THEN custom_config[key] ELSE @[key]]]

\* Line 233, the call: what the called method does before it first
\* suspends. Of the methods, deploy_game_server writes to state that
\* outlives the call.
method_called(task_id) ==
    IF bg[task_id].method_name = "deploy_game_server"
          /\ "custom_config" \in DOMAIN bg[task_id]
    THEN deploy_game_server_config(bg[task_id].game, bg[task_id].custom_config)
    ELSE game_configs

\* run_agent_task with the two lookups outside the try statement: the
\* ValueError leaves the coroutine and the record stays as it is.
run_agent_task_lookup_escapes(task_id) ==
    /\ task_id \in DOMAIN bg
    /\ bg[task_id].pc = "scheduled"
    /\ active_tasks' = task_set(active_tasks, task_id, "status", "running")
    /\ status_log' = [status_log EXCEPT ![task_id] = Append(@, "running")]
    /\ LET agent_name == bg[task_id].agent_name
           method_name == bg[task_id].method_name
       IN IF agent_name \notin DOMAIN agents
          THEN bg' = [bg EXCEPT ![task_id].pc = "finished"]
                 /\ UNCHANGED game_configs
          ELSE IF method_name \notin agents[agent_name]
          THEN bg' = [bg EXCEPT ![task_id].pc = "finished"]
                 /\ UNCHANGED game_configs
          ELSE bg' = [bg EXCEPT ![task_id].pc = "awaiting"]
                 /\ game_configs' = method_called(task_id)
    /\ UNCHANGED resp
    /\ UNCHANGED <<supVars, bcVars>>

\* Lines 219-233: status "running", the lookup of the agent and of the
\* method, and the call of the method, in which the coroutine suspends. A
\* failed lookup raises ValueError, which lines 241-244 handle in the same
\* step.
run_agent_task(task_id) ==
    /\ task_id \in DOMAIN bg
    /\ bg[task_id].pc = "scheduled"
    /\ LET running == task_set(active_tasks, task_id, "status", "running")
           agent_name == bg[task_id].agent_name
           method_name == bg[task_id].method_name
       IN IF agent_name \notin DOMAIN agents
          THEN /\ active_tasks' = task_failed(running, task_id, "Unknown agent")
               /\ status_log' = [status_log EXCEPT ![task_id] =
                                     @ \o <<"running", "failed">>]
               /\ bg' = [bg EXCEPT ![task_id].pc = "finished"]
               /\ UNCHANGED game_configs
          ELSE IF method_name \notin agents[agent_name]
          THEN /\ active_tasks' = task_failed(running, task_id, "Unknown method")
               /\ status_log' = [status_log EXCEPT ![task_id] =
                                     @ \o <<"running", "failed">>]
               /\ bg' = [bg EXCEPT ![task_id].pc = "finished"]
               /\ UNCHANGED game_configs
          ELSE /\ active_tasks' = running
               /\ status_log' = [status_log EXCEPT ![task_id] =
                                     Append(@, "running")]
               /\ bg' = [bg EXCEPT ![task_id].pc = "awaiting"]
               /\ game_configs' = method_called(task_id)
    /\ UNCHANGED resp
    /\ UNCHANGED <<supVars, bcVars>>

\* run_agent_task_return with a statement after line 237 that raises inside
\* the try block, so that the except branch runs on a completed task.
run_agent_task_return_then_raise(task_id, result) ==
    /\ task_id \in DOMAIN bg
    /\ bg[task_id].pc = "awaiting"
    /\ active_tasks' =
          task_failed(
              task_set(task_set(active_tasks, task_id, "status", "completed"),
                       task_id, "result", result),
              task_id, "boom")
    /\ status_log' = [status_log EXCEPT ![task_id] =
                          @ \o <<"completed", "failed">>]
    /\ bg' = [bg EXCEPT ![task_id].pc = "finished"]
    /\ UNCHANGED resp
    /\ UNCHANGED <<game_configs, supVars, bcVars>>

\* run_agent_task_return with the record of a finished task deleted from
\* the table.
run_agent_task_return_and_del(task_id, result) ==
    /\ task_id \in DOMAIN bg
    /\ bg[task_id].pc = "awaiting"
    /\ active_tasks' = DictDel(active_tasks, task_id)
    /\ status_log' = [status_log EXCEPT ![task_id] = Append(@, "completed")]
    /\ bg' = [bg EXCEPT ![task_id].pc = "finished"]
    /\ UNCHANGED resp
    /\ UNCHANGED <<game_configs, supVars, bcVars>>

\* Lines 233-239: the method returned.
run_agent_task_return(task_id, result) ==
    /\ task_id \in DOMAIN bg
    /\ bg[task_id].pc = "awaiting"
    /\ active_tasks' =
          task_set(task_set(active_tasks, task_id, "status", "completed"),
                   task_id, "result", result)
    /\ status_log' = [status_log EXCEPT ![task_id] = Append(@, "completed")]
    /\ bg' = [bg EXCEPT ![task_id].pc = "finished"]
    /\ UNCHANGED resp
    /\ UNCHANGED <<game_configs, supVars, bcVars>>

\* run_agent_task_except without an except clause: what the method raised
\* leaves the coroutine and the record stays as it is.
run_agent_task_except_escapes(task_id, e) ==
    /\ task_id \in DOMAIN bg
    /\ bg[task_id].pc = "awaiting"
    /\ bg' = [bg EXCEPT ![task_id].pc = "finished"]
    /\ UNCHANGED <<active_tasks, status_log, resp>>
    /\ UNCHANGED <<game_configs, supVars, bcVars>>

\* Lines 233, 241-244: the method raised.
run_agent_task_except(task_id, e) ==
    /\ task_id \in DOMAIN bg
    /\ bg[task_id].pc = "awaiting"
    /\ active_tasks' = task_failed(active_tasks, task_id, e)
    /\ status_log' = [status_log EXCEPT ![task_id] = Append(@, "failed")]
    /\ bg' = [bg EXCEPT ![task_id].pc = "finished"]
    /\ UNCHANGED resp
    /\ UNCHANGED <<game_configs, supVars, bcVars>>

\* get_task_status with active_tasks.get(task_id, {}) in place of the test
\* of line 300: an id the table does not have is answered like a record
\* without fields.
get_task_status_no_test(task_id) ==
    /\ resp' = IF task_id \notin DOMAIN active_tasks
               THEN [code |-> 200, task_id |-> task_id, status |-> None,
                     result |-> None, error |-> None]
               ELSE [code |-> 200, task_id |-> task_id,
                     status |-> active_tasks[task_id].status,
                     result |-> dict_get(active_tasks[task_id], "result"),
                     error |-> dict_get(active_tasks[task_id], "error")]
    /\ UNCHANGED <<active_tasks, bg, status_log>>
    /\ UNCHANGED <<game_configs, supVars, bcVars>>

\* Lines 299-309: GET /tasks/{task_id}
get_task_status(task_id) ==
    /\ resp' = IF task_id \notin DOMAIN active_tasks
               THEN [code |-> 404, task_id |-> task_id]
               ELSE [code |-> 200, task_id |-> task_id,
                     status |-> active_tasks[task_id].status,
                     result |-> dict_get(active_tasks[task_id], "result"),
                     error |-> dict_get(active_tasks[task_id], "error")]
    /\ UNCHANGED <<active_tasks, bg, status_log>>
    /\ UNCHANGED <<game_configs, supVars, bcVars>>

\* Lines 294-296: GET /tasks returns the table itself.
get_tasks == active_tasks

\* GameServerAgent.deploy_game_server, lines 113-119: the dict returned has
\* under "config" the game_config of line 89, which is the dict held by
\* game_configs. Reading active_tasks[task_id]["result"]["config"] reads
\* that dict as it is at the time of the read.
result_config(task_id) == game_configs[bg[task_id].game]

----------------------------------------------------------------------------
(* ConnectionManager, the websocket endpoints and the broadcast loops *)

\* system_status_manager and task_status_manager
Topics == {"system", "tasks"}

Sockets == 1..MaxSockets

NoSocket == 0

\* A websocket: the topic of the endpoint serving it, where that endpoint's
\* coroutine stands and whether the peer is still there.
NewSocket == [topic |-> "none", st |-> "new", peer |-> TRUE, msg |-> None]

\* A loop asleep between two ticks. In a broadcast round (pc = "send") i is
\* the position of the for loop in the list, cur the socket whose send_text
\* is awaited, msg the message, got the sockets that have received it and
\* start the sockets the list had when the round began. sent is what
\* json.dumps was given for the last round of the task loop in which
\* broadcast returned, and err the socket whose send_text raised the
\* exception the loop's last round logged.
IdleLoop == [pc |-> "sleep", i |-> 0, cur |-> NoSocket, msg |-> None,
             got |-> {}, start |-> {}, sent |-> EmptyDict, err |-> NoSocket]

Range(seq) == {seq[k] : k \in DOMAIN seq}

\* list.remove(x): the list without the first x
list_remove(seq, x) ==
    LET k == CHOOSE j \in DOMAIN seq :
                 seq[j] = x /\ \A h \in 1..(j - 1) : seq[h] # x
    IN [h \in 1..(Len(seq) - 1) |-> IF h < k THEN seq[h] ELSE seq[h + 1]]

\* SystemMonitor.get_system_status never suspends and never raises: any
\* failure inside it yields the "error" status.
SystemStatuses == {"active", "error"}

\* json.dumps(active_tasks): the content of the table at this moment
dumps_tasks == [kind |-> "tasks", body |-> active_tasks]

dumps_status(status) == [kind |-> "system", body |-> status]

\* Lines 247-249 / 264-266: the endpoint is entered and suspends in
\* websocket.accept().
websocket_endpoint(w, T) ==
    /\ sock[w].st = "new"
    /\ sock' = [sock EXCEPT ![w].topic = T, ![w].st = "accept"]
    /\ UNCHANGED <<active_connections, loop, last_tasks>>
    /\ UNCHANGED <<raised, received, supVars, taskVars>>

\* The message of the first send_text: line 269 dumps the table, lines
\* 252-253 dump what get_system_status returned.
initial_message(T, status) ==
    IF T = "tasks" THEN dumps_tasks ELSE dumps_status(status)

\* websocket_accepted without lines 252-253 / 269: after connect() the
\* endpoint goes to its receive loop and the socket is sent what the next
\* round of the loop sends.
websocket_accepted_no_initial(w) ==
    /\ sock[w].st = "accept"
    /\ IF sock[w].peer
       THEN /\ active_connections' =
                  [active_connections EXCEPT ![sock[w].topic] = Append(@, w)]
            /\ sock' = [sock EXCEPT ![w].st = "open"]
       ELSE /\ sock' = [sock EXCEPT ![w].st = "closed"]
            /\ UNCHANGED active_connections
    /\ UNCHANGED <<loop, last_tasks>>
    /\ UNCHANGED <<raised, received, supVars, taskVars>>

\* Lines 36-38 and 252-253 / 269: accept() returned, the socket is appended
\* to the manager's list, and the endpoint suspends in the send_text of the
\* first snapshot, sock[w].msg. accept() raises when the peer is gone, and
\* the endpoint ends there.
websocket_accepted(w) ==
    /\ sock[w].st = "accept"
    /\ IF sock[w].peer
       THEN /\ active_connections' =
                  [active_connections EXCEPT ![sock[w].topic] = Append(@, w)]
            /\ \E status \in SystemStatuses :
                  sock' = [sock EXCEPT
                             ![w].st = "initial",
                             ![w].msg = initial_message(sock[w].topic, status)]
       ELSE /\ sock' = [sock EXCEPT ![w].st = "closed"]
            /\ UNCHANGED active_connections
    /\ UNCHANGED <<loop, last_tasks>>
    /\ UNCHANGED <<raised, received, supVars, taskVars>>

\* Lines 253-258 / 269-274: the first send_text is over. When it raised, the
\* exception leaves the endpoint (the try statement starts below it) and
\* nothing removes the socket from the list. A send to a peer that is gone
\* raises or, with servers that drop such frames, returns.
websocket_initial_sent(w, raises) ==
    /\ sock[w].st = "initial"
    /\ raises => ~sock[w].peer
    /\ sock' = [sock EXCEPT ![w].st = IF raises THEN "closed" ELSE "open",
                            ![w].msg = None]
    /\ UNCHANGED <<active_connections, loop, last_tasks>>
    /\ UNCHANGED <<raised, received, supVars, taskVars>>

\* Lines 256-259 / 272-275: a message of the peer is received and ignored.
websocket_receive_text(w) ==
    /\ sock[w].st = "open"
    /\ sock[w].peer
    /\ UNCHANGED <<active_connections, sock, loop, last_tasks>>
    /\ UNCHANGED <<raised, received, supVars, taskVars>>

\* Lines 40-41: disconnect(websocket) of the manager of topic T.
\* list.remove raises ValueError for a value the list does not have.
disconnect(T, w) ==
    /\ IF w \in Range(active_connections[T])
       THEN /\ active_connections' =
                  [active_connections EXCEPT ![T] = list_remove(@, w)]
            /\ raised' = None
       ELSE /\ raised' = "ValueError"
            /\ UNCHANGED active_connections
    /\ UNCHANGED <<sock, loop, last_tasks>>
    /\ UNCHANGED <<received, supVars, taskVars>>

\* Lines 260-262 / 276-278 and 40-41: receive_text raises
\* WebSocketDisconnect and the manager's disconnect removes the socket.
websocket_disconnected(w) ==
    /\ sock[w].st = "open"
    /\ ~sock[w].peer
    /\ w \in Range(active_connections[sock[w].topic])
    /\ active_connections' =
          [active_connections EXCEPT ![sock[w].topic] = list_remove(@, w)]
    /\ sock' = [sock EXCEPT ![w].st = "closed"]
    /\ UNCHANGED <<loop, last_tasks>>
    /\ UNCHANGED <<raised, received, supVars, taskVars>>

\* The peer of a websocket goes away.
peer_closes(w) ==
    /\ sock[w].st # "new"
    /\ sock[w].peer
    /\ sock' = [sock EXCEPT ![w].peer = FALSE]
    /\ UNCHANGED <<active_connections, loop, last_tasks>>
    /\ UNCHANGED <<raised, received, supVars, taskVars>>

\* active_tasks != last_tasks. last_tasks is active_tasks.copy(), a shallow
\* copy: under each key it holds the very dict the table holds, so the
\* values under a common key are one object and compare equal.
tasks_differ ==
    \/ DOMAIN active_tasks # DOMAIN last_tasks
    \/ \E k \in DOMAIN active_tasks \cap DOMAIN last_tasks :
          active_tasks[last_tasks[k]] # active_tasks[k]

\* active_tasks.copy(): key -> reference to the task's dict
shallow_copy == [k \in DOMAIN active_tasks |-> k]

\* Lines 46-48, entered: the for loop takes the first socket of the list and
\* broadcast suspends in its send_text.
broadcast_begin(T, message) ==
    [loop EXCEPT ![T] = [pc |-> "send", i |-> 1,
                         cur |-> active_connections[T][1], msg |-> message,
                         got |-> {}, start |-> Range(active_connections[T]),
                         sent |-> loop[T].sent, err |-> NoSocket]]

\* broadcast_system_status without the test of line 182: with an empty list
\* the status is still queried and dumped, and broadcast is called with it.
broadcast_system_status_no_test(status) ==
    /\ loop["system"].pc = "sleep"
    /\ IF active_connections["system"] # <<>>
       THEN loop' = broadcast_begin("system", dumps_status(status))
       ELSE loop' = [loop EXCEPT !["system"].pc = "send",
                                 !["system"].msg = dumps_status(status)]
    /\ UNCHANGED <<active_connections, sock, last_tasks>>
    /\ UNCHANGED <<raised, received, supVars, taskVars>>

\* Lines 182-195: a tick of broadcast_system_status.
broadcast_system_status(status) ==
    /\ loop["system"].pc = "sleep"
    /\ IF active_connections["system"] # <<>>
       THEN loop' = broadcast_begin("system", dumps_status(status))
       ELSE loop' = loop
    /\ UNCHANGED <<active_connections, sock, last_tasks>>
    /\ UNCHANGED <<raised, received, supVars, taskVars>>

\* broadcast_task_updates without the comparison of line 203.
broadcast_task_updates_no_compare ==
    /\ loop["tasks"].pc = "sleep"
    /\ IF active_connections["tasks"] # <<>>
       THEN loop' = broadcast_begin("tasks", dumps_tasks)
       ELSE loop' = loop
    /\ UNCHANGED <<active_connections, sock, last_tasks>>
    /\ UNCHANGED <<raised, received, supVars, taskVars>>

\* Lines 202-215: a tick of broadcast_task_updates.
broadcast_task_updates ==
    /\ loop["tasks"].pc = "sleep"
    /\ IF active_connections["tasks"] # <<>> /\ tasks_differ
       THEN loop' = broadcast_begin("tasks", dumps_tasks)
       ELSE loop' = loop
    /\ UNCHANGED <<active_connections, sock, last_tasks>>
    /\ UNCHANGED <<raised, received, supVars, taskVars>>

\* broadcast called by a loop without the try statement of lines 183-192 /
\* 204-212: what send_text raises leaves the loop's coroutine, which ends.
broadcast_raise_ends_loop(T, raises) ==
    /\ loop[T].pc = "send"
    /\ raises => ~sock[loop[T].cur].peer
    /\ IF raises
       THEN /\ loop' = [loop EXCEPT ![T].pc = "ended", ![T].err = loop[T].cur]
            /\ UNCHANGED last_tasks
       ELSE LET got == IF sock[loop[T].cur].peer
                       THEN loop[T].got \cup {loop[T].cur} ELSE loop[T].got
            IN IF loop[T].i < Len(active_connections[T])
               THEN /\ loop' = [loop EXCEPT
                                  ![T].i = @ + 1,
                                  ![T].cur = active_connections[T][loop[T].i + 1],
                                  ![T].got = got]
                    /\ UNCHANGED last_tasks
               ELSE /\ loop' = [loop EXCEPT ![T] =
                                  [IdleLoop EXCEPT
                                     !.sent = IF T = "tasks"
                                              THEN loop[T].msg.body
                                              ELSE loop[T].sent]]
                    /\ last_tasks' = IF T = "tasks" THEN shallow_copy
                                     ELSE last_tasks
    /\ UNCHANGED <<active_connections, sock>>
    /\ UNCHANGED <<raised, received, supVars, taskVars>>

\* broadcast with the copy of line 209 taken in a finally clause: the task
\* loop replaces last_tasks also when a send_text of the round raised.
broadcast_copy_on_raise(T, raises) ==
    /\ loop[T].pc = "send"
    /\ raises => ~sock[loop[T].cur].peer
    /\ IF raises
       THEN /\ loop' = [loop EXCEPT ![T] =
                                [IdleLoop EXCEPT !.sent = loop[T].sent,
                                                 !.err = loop[T].cur]]
            /\ last_tasks' = IF T = "tasks" THEN shallow_copy ELSE last_tasks
       ELSE LET got == IF sock[loop[T].cur].peer
                       THEN loop[T].got \cup {loop[T].cur} ELSE loop[T].got
            IN IF loop[T].i < Len(active_connections[T])
               THEN /\ loop' = [loop EXCEPT
                                  ![T].i = @ + 1,
                                  ![T].cur = active_connections[T][loop[T].i + 1],
                                  ![T].got = got]
                    /\ UNCHANGED last_tasks
               ELSE /\ loop' = [loop EXCEPT ![T] =
                                  [IdleLoop EXCEPT
                                     !.sent = IF T = "tasks"
                                              THEN loop[T].msg.body
                                              ELSE loop[T].sent]]
                    /\ last_tasks' = IF T = "tasks" THEN shallow_copy
                                     ELSE last_tasks
    /\ UNCHANGED <<active_connections, sock>>
    /\ UNCHANGED <<raised, received, supVars, taskVars>>

\* Lines 47-48, resumed: the send_text of the round's current socket is
\* over. When it returned, the for loop goes on with the element at the next
\* index of the list as it is now; past the end broadcast returns, and the
\* task loop takes its copy (line 209). When it raised, the exception leaves
\* broadcast and is logged by the loop (lines 191 / 211). Either way the
\* loop then sleeps.
broadcast_send(T, raises) ==
    /\ loop[T].pc = "send"
    /\ raises => ~sock[loop[T].cur].peer
    /\ IF raises
       THEN /\ loop' = [loop EXCEPT ![T] =
                                [IdleLoop EXCEPT !.sent = loop[T].sent,
                                                 !.err = loop[T].cur]]
            /\ UNCHANGED last_tasks
       ELSE LET got == IF sock[loop[T].cur].peer
                       THEN loop[T].got \cup {loop[T].cur} ELSE loop[T].got
            IN IF loop[T].i < Len(active_connections[T])
               THEN /\ loop' = [loop EXCEPT
                                  ![T].i = @ + 1,
                                  ![T].cur = active_connections[T][loop[T].i + 1],
                                  ![T].got = got]
                    /\ UNCHANGED last_tasks
               ELSE /\ loop' = [loop EXCEPT ![T] =
                                  [IdleLoop EXCEPT
                                     !.sent = IF T = "tasks"
                                              THEN loop[T].msg.body
                                              ELSE loop[T].sent]]
                    /\ last_tasks' = IF T = "tasks" THEN shallow_copy
                                     ELSE last_tasks
    /\ UNCHANGED <<active_connections, sock>>
    /\ UNCHANGED <<raised, supVars, taskVars>>

\* What a peer has received from the task loop: nothing yet.
NotReceived == [any |-> FALSE]

\* ConnectionManager.broadcast as a loop calls it.
broadcast(T, raises) ==
    /\ broadcast_send(T, raises)
    /\ UNCHANGED received

\* broadcast, with what the peers receive: when a send_text of the task
\* loop returns and the peer is there, the peer has the round's snapshot.
broadcast_received(T, raises) ==
    /\ broadcast_send(T, raises)
    /\ received' = IF ~raises /\ T = "tasks" /\ sock[loop[T].cur].peer
                   THEN [received EXCEPT ![loop[T].cur] =
                            [any |-> TRUE, body |-> loop[T].msg.body]]
                   ELSE received

----------------------------------------------------------------------------
(* Specifications *)

\* The module globals and MCPConnector.__init__
Init ==
    /\ running_servers = EmptyDict
    /\ procs = <<>>
    /\ call = [c \in Callers |-> IdleCall]
    /\ clock = 0
    /\ batch = IdleBatch
    /\ lifespan = NewLifespan
    /\ loaded = NotLoaded
    /\ active_tasks = EmptyDict
    /\ game_configs = [minecraft |-> [min_ram |-> 2048, recommended_ram |-> 4096]]
    /\ bg = EmptyDict
    /\ status_log = EmptyDict
    /\ resp = [code |-> 0]
    /\ active_connections = [T \in Topics |-> <<>>]
    /\ sock = [w \in Sockets |-> NewSocket]
    /\ loop = [T \in Topics |-> IdleLoop]
    /\ last_tasks = EmptyDict
    /\ raised = None
    /\ received = [w \in Sockets |-> NotReceived]

ProcStep ==
    \E p \in 1..MaxProcs :
        \/ process_exit(p)
        \/ monitor_logs_line(p)
        \/ monitor_logs_eof(p)

\* Any number of start_server / stop_server coroutines in flight at once.
Next ==
    \/ \E c \in Callers, n \in ServerNames : start_server(c, n)
    \/ \E c \in Callers : start_server_resume(c)
    \/ \E c \in Callers, n \in StopNames : stop_server(c, n)
    \/ \E c \in Callers : stop_server_wait(c)
    \/ \E c \in Callers : stop_server_timeout(c)
    \/ \E c \in Callers : stop_server_killwait(c)
    \/ \E c \in Callers : call_return(c)
    \/ ProcStep

Spec == Init /\ [][Next]_vars

\* Every caller issues one start_server call, and the calls may overlap.
NextStart ==
    \/ \E c \in Callers, n \in ServerNames : start_server(c, n)
    \/ \E c \in Callers : start_server_resume(c)
    \/ ProcStep

SpecStart == Init /\ [][NextStart]_vars

\* BaseAgent.initialize, lines 52-56: each start_server call is awaited
\* before the next one is made.
initialize_start(c, n) ==
    /\ \A d \in Callers : call[d].pc \in {"idle", "done"}
    /\ start_server(c, n)

NextStartSeq ==
    \/ \E c \in Callers, n \in ServerNames : initialize_start(c, n)
    \/ \E c \in Callers : start_server_resume(c)
    \/ \E c \in Callers : call_return(c)
    \/ ProcStep

SpecStartSeq == Init /\ [][NextStartSeq]_vars

\* test_mcp_connector, lines 175-185: the coroutine that makes every call of
\* a sequential run.
test_mcp_connector == CHOOSE c \in Callers : \A d \in Callers : c <= d

\* test_mcp_connector, line 175: start_server is called when no call is in
\* flight.
sequential_start(n) ==
    /\ \A d \in Callers : call[d].pc = "idle"
    /\ start_server(test_mcp_connector, n)

\* test_mcp_connector, line 185: stop_server is called when the start_server
\* call has returned.
sequential_stop(n) ==
    /\ \A d \in Callers : call[d].pc = "idle"
    /\ stop_server(test_mcp_connector, n)

\* test_mcp_connector, lines 175-185, repeated: one caller at a time, each
\* call awaited before the next one is made.
NextSeq ==
    \/ \E n \in ServerNames : sequential_start(n)
    \/ \E c \in Callers : start_server_resume(c)
    \/ \E n \in StopNames : sequential_stop(n)
    \/ \E c \in Callers : stop_server_wait(c)
    \/ \E c \in Callers : stop_server_timeout(c)
    \/ \E c \in Callers : stop_server_killwait(c)
    \/ \E c \in Callers : call_return(c)
    \/ ProcStep

SpecSeq == Init /\ [][NextSeq]_vars

\* The coroutine that makes the stop_server calls beside
\* test_mcp_connector's start_server calls.
stopping_coroutine == CHOOSE c \in Callers : c # test_mcp_connector

\* One coroutine calls start_server and another stop_server, each awaiting
\* its call before it makes the next: at any time at most one start_server
\* and one stop_server are in flight, and they interleave at their awaits.
NextStartStop ==
    \/ \E n \in ServerNames : start_server(test_mcp_connector, n)
    \/ start_server_resume(test_mcp_connector)
    \/ \E n \in StopNames : stop_server(stopping_coroutine, n)
    \/ stop_server_wait(stopping_coroutine)
    \/ stop_server_timeout(stopping_coroutine)
    \/ stop_server_killwait(stopping_coroutine)
    \/ \E c \in Callers : call_return(c)
    \/ ProcStep

SpecStartStop == Init /\ [][NextStartStop]_vars

\* The event loop runs every coroutine that is ready, and the timer of
\* wait_for fires when the grace period is over. Nothing obliges a child to
\* exit, whatever signal it was sent.
FairnessSeq ==
    /\ WF_vars(\E c \in Callers : start_server_resume(c))
    /\ WF_vars(\E c \in Callers : stop_server_wait(c))
    /\ WF_vars(\E c \in Callers : stop_server_timeout(c))
    /\ WF_vars(\E c \in Callers : stop_server_killwait(c))
    /\ WF_vars(\E c \in Callers : call_return(c))
    /\ WF_vars(\E p \in DOMAIN procs : monitor_logs_eof(p))

FairSpecSeq == Init /\ [][NextSeq]_vars /\ FairnessSeq

\* One start_all_servers / stop_all_servers call at a time, beside the
\* children.
NextAll ==
    \/ \E c \in Callers : start_all_servers(c)
    \/ \E c \in Callers : stop_all_servers(c)
    \/ \E c \in Callers : all_servers_call(c)
    \/ \E c \in Callers : start_server_resume(c)
    \/ \E c \in Callers : stop_server_wait(c)
    \/ \E c \in Callers : stop_server_timeout(c)
    \/ \E c \in Callers : stop_server_killwait(c)
    \/ \E c \in Callers : all_servers_collect(c)
    \/ \E c \in Callers : all_servers_return(c)
    \/ all_servers_taken
    \/ ProcStep

SpecAll == Init /\ [][NextAll]_vars

\* The event loop runs every coroutine that is ready; a child that was sent
\* SIGKILL exits. Nothing obliges a caller to call, a child to exit on its
\* own or on SIGTERM, or the grace period to run out before the child exits.
Fairness ==
    /\ WF_vars(\E c \in Callers : start_server_resume(c))
    /\ WF_vars(\E c \in Callers : stop_server_wait(c))
    /\ WF_vars(\E c \in Callers : stop_server_killwait(c))
    /\ WF_vars(\E c \in Callers : call_return(c))
    /\ WF_vars(\E p \in DOMAIN procs : monitor_logs_eof(p))
    /\ WF_vars(\E p \in DOMAIN procs : procs[p].sig = "kill" /\ process_exit(p))

FairSpec == Init /\ [][Next]_vars /\ Fairness

\* Tasks are submitted, run and queried in any interleaving.
NextTask ==
    \/ \E ref \in OperationRefs : submit_task(ref)
    \/ \E t \in TaskIds : run_agent_task(t)
    \/ \E t \in TaskIds, r \in Results : run_agent_task_return(t, r)
    \/ \E t \in TaskIds, e \in Raised : run_agent_task_except(t, e)
    \/ \E t \in 1..(MaxTasks + 1) : get_task_status(t)

SpecTask == Init /\ [][NextTask]_vars

\* The server runs every background task it was given, and the operation a
\* task awaits returns or raises.
FairnessTask ==
    \A t \in TaskIds :
        /\ WF_vars(run_agent_task(t))
        /\ WF_vars(\/ \E r \in Results : run_agent_task_return(t, r)
                   \/ \E e \in Raised : run_agent_task_except(t, e))

FairSpecTask == Init /\ [][NextTask]_vars /\ FairnessTask

\* POST /game/deploy requests for minecraft, run and queried in any
\* interleaving.
NextDeploy ==
    \/ \E cc \in CustomConfigs : deploy_game_server("minecraft", cc)
    \/ \E t \in TaskIds : run_agent_task(t)
    \/ \E t \in TaskIds, r \in Results : run_agent_task_return(t, r)
    \/ \E t \in TaskIds, e \in Raised : run_agent_task_except(t, e)
    \/ \E t \in 1..(MaxTasks + 1) : get_task_status(t)

SpecDeploy == Init /\ [][NextDeploy]_vars

\* A connector is built from any of the files and is asked for its
\* servers and to start them.
NextConfig ==
    \/ \E file \in ConfigFiles : MCPConnector_init(file)
    \/ loaded_get_available_servers
    \/ loaded_start_all_servers
    \/ \E n \in ServerNames : loaded_start_server(n)

SpecConfig == Init /\ [][NextConfig]_vars

\* The life of the application: startup, in which the agents are
\* initialized one after the other, and teardown, in which they are shut
\* down one after the other, beside the children.
NextLifespan ==
    \/ \E c \in Callers : initialize(c)
    \/ \E c \in Callers : initialize_call(c)
    \/ \E c \in Callers : start_server_resume(c)
    \/ \E c \in Callers : initialize_collect(c)
    \/ \E c \in Callers : initialize_return(c)
    \/ lifespan_teardown
    \/ \E c \in Callers, aexit_raises \in BOOLEAN : shutdown(c, aexit_raises)
    \/ \E c \in Callers : shutdown_call(c)
    \/ \E c \in Callers : stop_server_wait(c)
    \/ \E c \in Callers : stop_server_timeout(c)
    \/ \E c \in Callers : stop_server_killwait(c)
    \/ \E c \in Callers : shutdown_collect(c)
    \/ \E c \in Callers : shutdown_return(c)
    \/ ProcStep

SpecLifespan == Init /\ [][NextLifespan]_vars

\* submit for the broadcast specifications, which bound the table by
\* MaxBroadcastTasks.
submit_one ==
    /\ Cardinality(DOMAIN active_tasks) < MaxBroadcastTasks
    /\ submit_task(<<"infrastructure", "run_task">>)

\* The /ws/tasks/updates endpoint and broadcast_task_updates, beside tasks
\* that are submitted and run.
NextTaskUpdates ==
    \/ \E w \in Sockets : websocket_endpoint(w, "tasks")
    \/ \E w \in Sockets : websocket_accepted(w)
    \/ \E w \in Sockets, raises \in BOOLEAN : websocket_initial_sent(w, raises)
    \/ \E w \in Sockets : websocket_receive_text(w)
    \/ \E w \in Sockets : websocket_disconnected(w)
    \/ \E w \in Sockets : peer_closes(w)
    \/ broadcast_task_updates
    \/ \E raises \in BOOLEAN : broadcast("tasks", raises)
    \/ submit_one
    \/ \E t \in TaskIds : run_agent_task(t)
    \/ \E t \in TaskIds : run_agent_task_return(t, "result")
    \/ \E t \in TaskIds : run_agent_task_except(t, "boom")

SpecTaskUpdates == Init /\ [][NextTaskUpdates]_vars

\* NextTaskUpdates, with what the peers receive from the task loop.
NextReceived ==
    \/ \E w \in Sockets : websocket_endpoint(w, "tasks")
    \/ \E w \in Sockets : websocket_accepted(w)
    \/ \E w \in Sockets, raises \in BOOLEAN : websocket_initial_sent(w, raises)
    \/ \E w \in Sockets : websocket_disconnected(w)
    \/ \E w \in Sockets : peer_closes(w)
    \/ broadcast_task_updates
    \/ \E raises \in BOOLEAN : broadcast_received("tasks", raises)
    \/ submit_one
    \/ \E t \in TaskIds : run_agent_task(t)

SpecReceived == Init /\ [][NextReceived]_vars

\* The clients that open /ws/tasks/updates in SpecSubscribers.
MaxSubscribers == 1

Subscribers == 1..MaxSubscribers

\* NextTaskUpdates with the clients of Subscribers.
NextSubscribers ==
    \/ \E w \in Subscribers : websocket_endpoint(w, "tasks")
    \/ \E w \in Subscribers : websocket_accepted(w)
    \/ \E w \in Subscribers, raises \in BOOLEAN :
          websocket_initial_sent(w, raises)
    \/ \E w \in Subscribers : websocket_receive_text(w)
    \/ \E w \in Subscribers : websocket_disconnected(w)
    \/ \E w \in Subscribers : peer_closes(w)
    \/ broadcast_task_updates
    \/ \E raises \in BOOLEAN : broadcast("tasks", raises)
    \/ submit_one
    \/ \E t \in TaskIds : run_agent_task(t)
    \/ \E t \in TaskIds : run_agent_task_return(t, "result")
    \/ \E t \in TaskIds : run_agent_task_except(t, "boom")

SpecSubscribers == Init /\ [][NextSubscribers]_vars

\* The task loop wakes from its sleep of one second, and a send_text it
\* awaits returns or raises.
FairnessSubscribers ==
    /\ WF_vars(broadcast_task_updates)
    /\ WF_vars(\E raises \in BOOLEAN : broadcast("tasks", raises))

FairSpecSubscribers == SpecSubscribers /\ FairnessSubscribers

\* The task loop beside the clients of Subscribers and tasks that are
\* submitted and whose method raises.
NextQueued ==
    \/ \E w \in Subscribers : websocket_endpoint(w, "tasks")
    \/ \E w \in Subscribers : websocket_accepted(w)
    \/ \E w \in Subscribers, raises \in BOOLEAN :
          websocket_initial_sent(w, raises)
    \/ \E w \in Subscribers : websocket_disconnected(w)
    \/ \E w \in Subscribers : peer_closes(w)
    \/ broadcast_task_updates
    \/ \E raises \in BOOLEAN : broadcast("tasks", raises)
    \/ submit_one
    \/ \E t \in TaskIds : run_agent_task(t)
    \/ \E t \in TaskIds : run_agent_task_except(t, "boom")

FairSpecQueued == Init /\ [][NextQueued]_vars /\ FairnessSubscribers

\* Websockets are accepted by either endpoint, and disconnect is called on
\* a manager with any websocket, in its list or not.
NextDisconnect ==
    \/ \E w \in Sockets, T \in Topics : websocket_endpoint(w, T)
    \/ \E w \in Sockets : websocket_accepted(w)
    \/ \E w \in Sockets, raises \in BOOLEAN : websocket_initial_sent(w, raises)
    \/ \E w \in Sockets : peer_closes(w)
    \/ \E T \in Topics, w \in Sockets : disconnect(T, w)

SpecDisconnect == Init /\ [][NextDisconnect]_vars

\* The /ws/system/status endpoint and broadcast_system_status.
NextSystemStatus ==
    \/ \E w \in Sockets : websocket_endpoint(w, "system")
    \/ \E w \in Sockets : websocket_accepted(w)
    \/ \E w \in Sockets, raises \in BOOLEAN : websocket_initial_sent(w, raises)
    \/ \E w \in Sockets : websocket_receive_text(w)
    \/ \E w \in Sockets : websocket_disconnected(w)
    \/ \E w \in Sockets : peer_closes(w)
    \/ \E st \in SystemStatuses : broadcast_system_status(st)
    \/ \E raises \in BOOLEAN : broadcast("system", raises)

SpecSystemStatus == Init /\ [][NextSystemStatus]_vars

\* The endpoint the client of websocket w opens in SpecLoops: the first client
\* watches the system status and the others the tasks.
endpoint_of(w) == IF w = 1 THEN "system" ELSE "tasks"

\* Both loops and both endpoints at once, with tasks that are submitted.
NextLoops ==
    \/ \E w \in Sockets : websocket_endpoint(w, endpoint_of(w))
    \/ \E w \in Sockets : websocket_accepted(w)
    \/ \E w \in Sockets, raises \in BOOLEAN : websocket_initial_sent(w, raises)
    \/ \E w \in Sockets : websocket_disconnected(w)
    \/ \E w \in Sockets : peer_closes(w)
    \/ \E st \in SystemStatuses : broadcast_system_status(st)
    \/ broadcast_task_updates
    \/ \E T \in Topics, raises \in BOOLEAN : broadcast(T, raises)
    \/ submit_one

SpecLoops == Init /\ [][NextLoops]_vars

\* A send_text returns or raises, and the event loop resumes the broadcast
\* that awaits it.
FairnessLoops ==
    \A T \in Topics : WF_vars(\E raises \in BOOLEAN : broadcast(T, raises))

FairSpecLoops == Init /\ [][NextLoops]_vars /\ FairnessLoops

----------------------------------------------------------------------------
(* Claims about the supervisor *)

Launched(n) == {p \in 1..Len(procs) : procs[p].name = n}

Live(n) == {p \in Launched(n) : procs[p].alive}

Tracked(n) == n \in DOMAIN running_servers

\* A start_server / stop_server call of caller c returns in this step.
Returns(c, op) ==
    /\ call[c].pc # "done"
    /\ call'[c].pc = "done"
    /\ call'[c].op = op

\* C1: under any interleaving of start and stop calls the supervisor never
\* has two live processes that it launched for the same server name.
C1_OneLivePerName == \A n \in ServerNames : Cardinality(Live(n)) <= 1

\* C2: two start calls that run concurrently for an enabled, spawnable,
\* untracked name both return True, and once both have returned the name has
\* its (one) entry in the running table.
C2_ConcurrentStart ==
    \A c \in Callers :
        (call[c].pc = "done" /\ call[c].op = "start"
            /\ call[c].name = "filesystem")
        => /\ call[c].ret = TRUE
           /\ (\A d \in Callers : call[d].pc \in {"idle", "done"})
                => Tracked("filesystem")

\* Both calls launched a child (so both ran past the line-50 test before
\* either recorded its entry) and both have returned True.
C2_Witness ==
    /\ Cardinality(Launched("filesystem")) = 2
    /\ \E c, d \in Callers :
          /\ c # d
          /\ call[c].pc = "done" /\ call[c].op = "start"
          /\ call[c].name = "filesystem" /\ call[c].ret
          /\ call[d].pc = "done" /\ call[d].op = "start"
          /\ call[d].name = "filesystem" /\ call[d].ret
    /\ Tracked("filesystem")

\* C6: a stop call that has sent the termination request and waited for the
\* exit, alone or beside other stop calls on the same name, returns True
\* when the process has exited by the time it returns.
C6_StopFalseOnlyUnconfirmed ==
    [][\A c \in Callers :
          (Returns(c, "stop") /\ call[c].pc \in {"wait", "killwait"}
              /\ ~procs'[call[c].proc].alive)
          => call'[c].ret = TRUE]_vars

\* C7: an entry leaves the running table only when the process it tracks has
\* exited.
C7_RemovedOnlyAfterExit ==
    [][\A n \in DOMAIN running_servers \ DOMAIN running_servers' :
          ~procs[running_servers[n].process].alive]_vars

StopCalled(n) ==
    \E c \in Callers : call[c].op = "stop" /\ call[c].name = n

\* C8: after a tracked process exits without stop being called for its name,
\* the name eventually leaves get_running_servers.
C8_ExitedEventuallyUntracked ==
    \A n \in StopNames :
        (Tracked(n) /\ ~procs[running_servers[n].process].alive
            /\ ~StopCalled(n))
        ~> (n \notin get_running_servers \/ StopCalled(n))

\* C9: start for a name that is already tracked returns True, launches
\* nothing and leaves the entry as it is; any number of start calls made one
\* after the other leaves exactly one launched process for the name.
C9_IdempotentStart ==
    [][/\ \A c \in Callers :
            (call[c].pc = "idle" /\ call'[c].op = "start"
                /\ Tracked(call'[c].name))
            => /\ call'[c].pc = "done" /\ call'[c].ret = TRUE
               /\ procs' = procs
               /\ running_servers' = running_servers
       /\ \A n \in ServerNames :
            /\ Cardinality(Launched(n))' <= 1
            /\ Tracked(n)' => Cardinality(Launched(n))' = 1]_vars

\* A second start call found the name tracked and returned True.
C9_Witness ==
    /\ Tracked("filesystem")
    /\ Cardinality(Launched("filesystem")) = 1
    /\ \E c, d \in Callers :
          /\ c # d
          /\ call[c].pc = "done" /\ call[c].op = "start"
          /\ call[c].name = "filesystem" /\ call[c].ret
          /\ call[d].pc = "done" /\ call[d].op = "start"
          /\ call[d].name = "filesystem" /\ call[d].ret

Registered(n) == n \in DOMAIN config.mcp.servers

\* C10: start for a name that is absent from the registry, or whose
\* descriptor is disabled, returns False without raising, launches no
\* process and leaves the running table unchanged.
C10_AbsentOrDisabled ==
    [][\A c \in Callers :
          (call[c].pc = "idle" /\ call'[c].op = "start"
              /\ (~Registered(call'[c].name)
                  \/ ~get_enabled(config.mcp.servers[call'[c].name])))
          => /\ call'[c].pc = "done" /\ call'[c].ret = FALSE
             /\ procs' = procs
             /\ running_servers' = running_servers]_vars

\* Both kinds of refused start have returned while a server is tracked.
C10_Witness ==
    /\ Tracked("filesystem")
    /\ \E c, d \in Callers :
          /\ call[c].pc = "done" /\ call[c].op = "start"
          /\ call[c].name = "ghost" /\ ~call[c].ret
          /\ call[d].pc = "done" /\ call[d].op = "start"
          /\ call[d].name = "time" /\ ~call[d].ret

\* The descriptor of n passes the tests of lines 46-57 and names a command
\* the host cannot launch.
Unspawnable(n) ==
    /\ Registered(n)
    /\ get_enabled(config.mcp.servers[n])
    /\ config.mcp.servers[n].command \notin Installed

\* C11: a start call whose launch fails returns False, records no entry and
\* changes no process (none is launched, no log monitor is created); a
\* process is only ever launched by a step of a start call, so nothing is
\* retried behind the caller's back.
C11_SpawnFailure ==
    [][/\ \A c \in Callers :
            (call[c].pc = "idle" /\ call'[c].op = "start"
                /\ Unspawnable(call'[c].name) /\ ~Tracked(call'[c].name))
            => /\ call'[c].pc = "done" /\ call'[c].ret = FALSE
               /\ procs' = procs
               /\ running_servers' = running_servers
       /\ Len(procs') > Len(procs)
            => \E c \in Callers :
                  /\ call[c].pc = "idle" /\ call'[c].pc = "spawn"
                  /\ ~Unspawnable(call'[c].name)]_vars

\* A start of "git", whose command is not installed, has returned False
\* while another server is tracked and running.
C11_Witness ==
    /\ Tracked("filesystem")
    /\ Live("filesystem") # {}
    /\ \E c \in Callers :
          /\ call[c].pc = "done" /\ call[c].op = "start"
          /\ call[c].name = "git" /\ ~call[c].ret

\* C12: stop for a name that has no entry returns True, signals no process
\* and leaves the running table as it is.
C12_StopUntracked ==
    [][\A c \in Callers :
          (call[c].pc = "idle" /\ call'[c].op = "stop"
              /\ ~Tracked(call'[c].name))
          => /\ call'[c].pc = "done" /\ call'[c].ret = TRUE
             /\ procs' = procs
             /\ running_servers' = running_servers]_vars

\* A stop call has returned True for a name that has no entry, while a
\* process launched for another name runs unsignalled.
C12_Witness ==
    /\ \E c \in Callers :
          /\ call[c].pc = "done" /\ call[c].op = "stop"
          /\ call[c].name = "ghost" /\ call[c].ret
    /\ \E p \in DOMAIN procs : procs[p].alive /\ procs[p].sig = "none"

\* C13: in a sequential run, a stop call that waits for the exit leaves the
\* wait when the grace period is over; it sends the kill only to a process
\* that has not exited, and never to one that exited within the grace
\* period; when the killed process has exited, the call removes the entry
\* and returns True.
C13_ForcedKill ==
    /\ [][/\ \A p \in DOMAIN procs :
                (procs'[p].sig = "kill" /\ procs[p].sig # "kill")
                => /\ procs[p].alive
                   /\ \E c \in Callers :
                         /\ call[c].pc = "wait" /\ call[c].proc = p
                         /\ call'[c].pc = "killwait"
           /\ \A c \in Callers :
                (call[c].pc = "killwait" /\ call'[c].pc = "done")
                => /\ ~procs[call[c].proc].alive
                   /\ call'[c].ret = TRUE
                   /\ ~Tracked(call[c].name)']_vars
    /\ \A c \in Callers :
          (call[c].pc = "wait") ~> (call[c].pc \in {"killwait", "done"})
    /\ \A c \in Callers :
          (call[c].pc = "killwait" /\ ~procs[call[c].proc].alive)
          ~> (call[c].pc = "done" /\ call[c].ret /\ ~Tracked(call[c].name))

\* Two stop calls have returned True: one whose process was killed after the
\* grace period, one whose process exited on the termination request.
C13_Witness ==
    /\ \E p, q \in DOMAIN procs :
          /\ procs[p].sig = "kill" /\ ~procs[p].alive
          /\ procs[q].sig = "term" /\ ~procs[q].alive
    /\ ~Tracked("filesystem")
    /\ \E c \in Callers :
          /\ call[c].pc = "done" /\ call[c].op = "stop"
          /\ call[c].name = "filesystem" /\ call[c].ret

\* C14: every stop call that has suspended returns, with True or with
\* False, whether or not the process ever exits.
C14_StopAlwaysReturns ==
    \A c \in Callers :
        (call[c].op = "stop" /\ call[c].pc \in {"wait", "killwait"})
        ~> (call[c].pc = "done")

EnabledNames ==
    {n \in DOMAIN config.mcp.servers : get_enabled(config.mcp.servers[n])}

\* C15: the dict start_all_servers returns has the enabled names of the
\* document as its keys, each with what start_server gives for that name
\* (True and an entry when the command can be launched, False and no entry
\* otherwise); the list stop_all_servers runs over is the names tracked at
\* the call, and the dict it returns has those names as its keys, each with
\* True and no entry left or False and the entry left. No outcome ends the
\* loop early.
C15_AllServers ==
    [][/\ (batch.op = "idle" /\ batch'.op = "stop_all")
            => /\ Range(batch'.names) = DOMAIN running_servers
               /\ Len(batch'.names) = Cardinality(DOMAIN running_servers)
       /\ (batch.op = "start_all" /\ batch'.op = "started_all")
            => /\ DOMAIN batch'.results = EnabledNames
               /\ \A n \in EnabledNames :
                     /\ batch'.results[n] = ~Unspawnable(n)
                     /\ batch'.results[n] = Tracked(n)
       /\ (batch.op = "stop_all" /\ batch'.op = "stopped_all")
            => /\ DOMAIN batch'.results = Range(batch.names)
               /\ \A n \in Range(batch.names) :
                     batch'.results[n] = ~Tracked(n)]_vars

\* stop_all_servers has returned a dict with False for the first name of its
\* list and True for the second, after a start_all_servers call that got
\* False for "git" and went on to launch the two servers after it.
C15_Witness ==
    /\ batch.op = "stopped_all"
    /\ Len(batch.names) = 2
    /\ ~batch.results[batch.names[1]]
    /\ batch.results[batch.names[2]]
    /\ Launched("git") = {}
    /\ Launched("filesystem") # {}
    /\ Launched("memory") # {}

\* C16: in a sequential run, every start call for an enabled name whose
\* command can be launched returns True with the name in
\* get_running_servers, and every stop call for that name returns True with
\* the name no longer in get_running_servers, however often the pair is
\* repeated.
C16_StartStopRoundTrip ==
    [][\A c \in Callers :
          /\ (Returns(c, "start") /\ Registered(call'[c].name)
                 /\ get_enabled(config.mcp.servers[call'[c].name])
                 /\ ~Unspawnable(call'[c].name))
              => /\ call'[c].ret = TRUE
                 /\ call'[c].name \in get_running_servers'
          /\ Returns(c, "stop")
              => /\ call'[c].ret = TRUE
                 /\ call'[c].name \notin get_running_servers']_vars

----------------------------------------------------------------------------
(* Claims about the task table *)

IsPrefix(a, b) == Len(a) <= Len(b) /\ \A k \in 1..Len(a) : a[k] = b[k]

\* C3: the values assigned to a task's status follow queued, running,
\* completed or queued, running, failed; nothing is assigned after a
\* terminal value, and the table holds the last value assigned.
C3_StatusPath ==
    \A t \in DOMAIN active_tasks :
        /\ \/ IsPrefix(status_log[t], <<"queued", "running", "completed">>)
           \/ IsPrefix(status_log[t], <<"queued", "running", "failed">>)
        /\ active_tasks[t].status = status_log[t][Len(status_log[t])]

\* One task has ended completed and another failed.
C3_Witness ==
    \E t, u \in DOMAIN active_tasks :
        /\ status_log[t] = <<"queued", "running", "completed">>
        /\ status_log[u] = <<"queued", "running", "failed">>

\* What a reader is given for a task record: result and error are None when
\* the key is missing.
WellFormed(status, result, error) ==
    /\ status \in {"queued", "running", "completed", "failed"}
    /\ status \in {"queued", "running"} => result = None /\ error = None
    /\ status = "completed" => result # None /\ error = None
    /\ status = "failed" => error # None /\ result = None

\* C4: every record a status query returns, and every record of the task
\* list, has result and error unset while queued or running, result set and
\* error unset when completed, error set and result unset when failed.
C4_NoTornRecord ==
    /\ resp.code = 200 => WellFormed(resp.status, resp.result, resp.error)
    /\ \A t \in DOMAIN get_tasks :
          WellFormed(get_tasks[t].status, dict_get(get_tasks[t], "result"),
                     dict_get(get_tasks[t], "error"))

\* A status query has returned a failed record (with the empty message of an
\* exception without arguments) while another task is completed.
C4_Witness ==
    /\ resp.code = 200 /\ resp.status = "failed" /\ resp.error = ""
    /\ \E t \in DOMAIN active_tasks : active_tasks[t].status = "completed"

\* C17: a submit stores the new record with status queued and nothing
\* else, and leaves its operation not yet started; a status query made while
\* the operation of a task has not started, as is the case when the submit
\* has just returned, answers queued.
C17_SubmitQueued ==
    [][/\ \A t \in DOMAIN active_tasks' \ DOMAIN active_tasks :
            /\ active_tasks'[t] = [status |-> "queued"]
            /\ bg'[t].pc = "scheduled"
       /\ (active_tasks' = active_tasks /\ bg' = bg /\ resp'.code = 200
              /\ bg[resp'.task_id].pc = "scheduled")
            => /\ resp'.status = "queued"
               /\ resp'.result = None
               /\ resp'.error = None]_vars

\* A status query has answered queued for a task whose operation has not
\* started, after an earlier task has run to its end.
C17_Witness ==
    /\ resp.code = 200 /\ resp.status = "queued"
    /\ bg[resp.task_id].pc = "scheduled"
    /\ \E t \in DOMAIN bg : t < resp.task_id /\ bg[t].pc = "finished"

Terminal(t) == active_tasks[t].status \in {"completed", "failed"}

\* C18: every submitted task eventually has status completed or failed, and
\* keeps that status from then on.
C18_EventuallyTerminal ==
    /\ \A t \in TaskIds :
          (t \in DOMAIN active_tasks) ~> (t \in DOMAIN active_tasks /\ Terminal(t))
    /\ [][\A t \in DOMAIN active_tasks :
             Terminal(t) => active_tasks'[t].status = active_tasks[t].status]_vars

\* Every task of a full table has ended: one whose operation returned, one
\* whose operation raised.
C18_Witness ==
    /\ DOMAIN active_tasks = TaskIds
    /\ \A t \in TaskIds : Terminal(t) /\ bg[t].pc = "finished"
    /\ \E t \in TaskIds : dict_get(active_tasks[t], "result") = "result"
    /\ \E t \in TaskIds : dict_get(active_tasks[t], "error") = "boom"

\* The operation reference of task t names no agent of the table, or no
\* method of the agent it names.
UnknownRef(t) ==
    \/ bg[t].agent_name \notin DOMAIN agents
    \/ bg[t].method_name \notin agents[bg[t].agent_name]

\* C19: a task whose reference is unknown is stored like any other; the step
\* that runs it ends it failed, with a non-empty error and no result, and
\* touches no other task.
C19_UnknownOperation ==
    [][/\ \A t \in DOMAIN bg' \ DOMAIN bg : t \in DOMAIN active_tasks'
       /\ \A t \in DOMAIN bg :
            (UnknownRef(t) /\ bg[t].pc = "scheduled" /\ bg'[t].pc # "scheduled")
            => /\ bg'[t].pc = "finished"
               /\ active_tasks'[t].status = "failed"
               /\ dict_get(active_tasks'[t], "error") \notin {None, ""}
               /\ dict_get(active_tasks'[t], "result") = None
               /\ \A u \in DOMAIN bg \ {t} :
                     bg'[u] = bg[u] /\ active_tasks'[u] = active_tasks[u]]_vars

\* A task with an unknown agent and a task with an unknown method have both
\* ended failed.
C19_Witness ==
    \E t, u \in DOMAIN bg :
        /\ bg[t].agent_name \notin DOMAIN agents
        /\ bg[u].agent_name \in DOMAIN agents /\ UnknownRef(u)
        /\ active_tasks[t].status = "failed"
        /\ active_tasks[u].status = "failed"

\* C20: a task is completed only when its operation returned the result of
\* work that succeeded; a task whose operation reported a failure is failed,
\* with the error set and no result.
C20_FailureIsFailed ==
    \A t \in DOMAIN active_tasks :
        /\ active_tasks[t].status = "completed"
            => dict_get(active_tasks[t], "result") = "result"
        /\ dict_get(active_tasks[t], "result") = "failure_report"
            => /\ active_tasks[t].status = "failed"
               /\ dict_get(active_tasks[t], "error") # None

\* The tasks POST /game/deploy made that have a result.
DeployCompleted ==
    {t \in DOMAIN active_tasks :
        /\ "custom_config" \in DOMAIN bg[t]
        /\ active_tasks[t].status = "completed"}

\* C21: tasks submitted concurrently have ids of their own, and the result
\* of a task is determined by its own operation alone: the configuration in
\* the result of a completed deploy task has, for every key its request
\* gave in custom_config, the value its request gave, whatever other tasks
\* were run beside it.
C21_TaskIsolation ==
    /\ DOMAIN bg = DOMAIN active_tasks
    /\ \A t \in DeployCompleted :
          \A key \in DOMAIN bg[t].custom_config :
              result_config(t)[key] = bg[t].custom_config[key]

\* C22: a status query for an id the table does not have is answered with
\* 404 and a query for an id it has is answered with the status, result and
\* error the record has at that time; neither changes the table.
C22_StatusQuery ==
    [][resp' /= resp =>
          /\ active_tasks' = active_tasks
          /\ IF resp'.task_id \notin DOMAIN active_tasks
             THEN resp'.code = 404
             ELSE /\ resp'.code = 200
                  /\ resp'.status = active_tasks[resp'.task_id].status
                  /\ resp'.result =
                        dict_get(active_tasks[resp'.task_id], "result")
                  /\ resp'.error =
                        dict_get(active_tasks[resp'.task_id], "error")]_vars

\* C22 witness: a query for an unknown id was answered 404 while the table
\* has a finished task, which it still has.
C22_Witness ==
    /\ resp.code = 404
    /\ resp.task_id \notin DOMAIN active_tasks
    /\ \E t \in DOMAIN active_tasks : Terminal(t)

\* C23: the set of task ids only grows: no step of a request, of a
\* background task or of the broadcast loop takes an id out of the table.
C23_IdsOnlyGrow ==
    [][DOMAIN active_tasks \subseteq DOMAIN active_tasks']_vars

\* C23 witness: the table was broadcast and copied into last_tasks, a task
\* has finished, and the table still has the task.
C23_Witness ==
    \E t \in DOMAIN active_tasks :
        /\ Terminal(t)
        /\ t \in DOMAIN last_tasks
        /\ loop["tasks"].pc = "sleep"

----------------------------------------------------------------------------
(* Claims about the broadcaster *)

\* C5: when a broadcast round ends, every socket of the topic's list whose
\* peer is there, other than the one whose send has just ended, has received
\* the round's message.
C5_FailureIsolated ==
    [][\A T \in Topics :
          (loop[T].pc = "send" /\ loop'[T].pc = "sleep")
          => \A w \in Range(active_connections[T]) :
                (sock[w].peer /\ w # loop[T].cur) => w \in loop[T].got]_vars

\* C24: the step that registers a subscriber starts the send of the current
\* snapshot of its topic to it, with no tick of the loop and no message of
\* the peer in between, and from then on the subscriber is in the list the
\* loop's rounds go through for as long as its peer is connected.
C24_InitialSnapshot ==
    /\ [][\A w \in Sockets, T \in Topics :
            /\ w \notin Range(active_connections[T])
            /\ w \in Range(active_connections'[T])
            => /\ sock'[w].topic = T
               /\ sock'[w].st = "initial"
               /\ sock'[w].msg.kind = T
               /\ (T = "tasks" => sock'[w].msg.body = active_tasks')]_vars
    /\ [](\A w \in Sockets :
            sock[w].st \in {"initial", "open"} /\ sock[w].peer
            => w \in Range(active_connections[sock[w].topic]))

\* C24 witness: a subscriber that was sent its first snapshot is the one a
\* round of the loop is sending to.
C24_Witness ==
    \E w \in Sockets :
        /\ sock[w].st = "open"
        /\ sock[w].peer
        /\ loop[sock[w].topic].pc = "send"
        /\ loop[sock[w].topic].cur = w

\* C25: disconnect is idempotent: called with a websocket the manager's
\* list does not have, because it was removed before or never was in it,
\* it returns without raising and leaves the lists as they are.
C25_DisconnectIdempotent ==
    [][\A T \in Topics, w \in Sockets :
          w \notin Range(active_connections[T]) /\ disconnect(T, w)
          => /\ raised' = None
             /\ active_connections' = active_connections]_vars

\* C26: a tick of the system status loop queries the status and starts to
\* send it only when the manager's list has a websocket at that tick: the
\* loop leaves its sleep, which is where it queries, only with a message
\* made from a status and the first websocket of a list that is not empty.
C26_SystemTickNeedsSubscriber ==
    [][loop["system"].pc = "sleep" /\ loop'["system"].pc # "sleep"
       => /\ active_connections["system"] # <<>>
          /\ loop'["system"].pc = "send"
          /\ loop'["system"].msg.kind = "system"
          /\ loop'["system"].msg.body \in SystemStatuses
          /\ loop'["system"].cur = active_connections["system"][1]]_vars

\* C26 witness: a tick found a websocket in the list and its round is
\* sending the status it queried.
C26_Witness ==
    /\ loop["system"].pc = "send"
    /\ loop["system"].msg.kind = "system"
    /\ active_connections["system"] # <<>>

\* C27: on a tick of the task loop at which the table is equal to what the
\* last round that broadcast returned from had dumped, no send is started:
\* the loop stays asleep.
C27_UnchangedNotResent ==
    [][loop["tasks"].pc = "sleep" /\ active_tasks = loop["tasks"].sent
       => loop'["tasks"].pc = "sleep"]_vars

\* C27 witness: the loop is asleep with a websocket in its list, and the
\* table, which has a task, is what the last round sent.
C27_Witness ==
    /\ loop["tasks"].pc = "sleep"
    /\ active_connections["tasks"] # <<>>
    /\ active_tasks # EmptyDict
    /\ active_tasks = loop["tasks"].sent

\* The topic of the other loop.
Other(T) == CHOOSE U \in Topics : U # T

\* C28: both loops keep running: a loop is asleep before its next tick or
\* in a round, a round always comes to its end, after which the loop is
\* asleep before its next tick, also when a send_text of the round raised
\* or the status queried was the error status, and the step in which a
\* loop logs the exception of its round changes nothing in the other loop.
C28_LoopsKeepRunning ==
    /\ [](\A T \in Topics : loop[T].pc \in {"sleep", "send"})
    /\ \A T \in Topics : (loop[T].pc = "send") ~> (loop[T].pc = "sleep")
    /\ [][\A T \in Topics :
            loop[T].pc = "send" /\ loop'[T].err # NoSocket
            => /\ loop'[T].pc = "sleep"
               /\ loop'[Other(T)].pc = loop[Other(T)].pc
               /\ loop'[Other(T)].i = loop[Other(T)].i
               /\ loop'[Other(T)].cur = loop[Other(T)].cur
               /\ loop'[Other(T)].got = loop[Other(T)].got]_vars

\* C28 witness: a loop is asleep after a round that ended with an
\* exception while the other loop is in a round of its own.
C28_Witness ==
    \E T \in Topics :
        /\ loop[T].pc = "sleep"
        /\ loop[T].err # NoSocket
        /\ loop[Other(T)].pc = "send"

\* C29: a websocket is not in its manager's list once a send to it has
\* failed or it has disconnected: not when its endpoint has ended, by the
\* exception of the first send or by WebSocketDisconnect, and not when the
\* loop has logged the exception of a send to it.
C29_FailedSendRemoves ==
    /\ \A w \in Sockets :
          sock[w].st = "closed"
          => w \notin Range(active_connections[sock[w].topic])
    /\ \A T \in Topics :
          loop[T].err # NoSocket
          => loop[T].err \notin Range(active_connections[T])

\* C30: when a websocket was removed from the list during a round and
\* broadcast returns, every other websocket that was in the list when the
\* round began, is still in it and has its peer, has received the round's
\* message, and no step of the round goes on to a websocket the round has
\* sent to before.
C30_RemovalDuringRound ==
    [][\A T \in Topics :
          /\ ( /\ loop[T].pc = "send"
               /\ loop'[T].pc = "sleep"
               /\ loop'[T].err = NoSocket
               /\ loop[T].start \ Range(active_connections[T]) # {} )
             => \A w \in loop[T].start \cap Range(active_connections[T]) :
                   (sock[w].peer /\ w # loop[T].cur) => w \in loop[T].got
          /\ (loop[T].pc = "send" /\ loop'[T].i = loop[T].i + 1)
             => loop'[T].cur \notin loop[T].got \cup {loop[T].cur}]_vars

----------------------------------------------------------------------------
(* Claims about the life of the application *)

\* C31: when the teardown of the lifespan is over, whatever closing an
\* agent's client did, no connector of any agent tracks a server.
C31_ShutdownLeavesNothing ==
    lifespan.pc = "done"
    => \A k \in DOMAIN LifespanAgents : connector_of(k) = EmptyDict

\* C32: a _monitor_logs task does not outlive the entry of its process: at
\* no time is a task still reading the output of a process that no entry of
\* running_servers holds.
C32_MonitorWithinEntry ==
    \A p \in DOMAIN procs :
        procs[p].mon = "reading"
        => \E n \in DOMAIN running_servers : running_servers[n].process = p

\* C33: a connector built from a file that is missing, unreadable or
\* malformed is an empty registry: get_available_servers returns no name,
\* start_all_servers returns the empty dict and start_server returns False
\* for every name, and none of them raises.
C33_MalformedIsEmpty ==
    loaded # NotLoaded
    => /\ loaded.available.type # "none"
          => loaded.available = Returned({})
       /\ loaded.start_all.type # "none"
          => loaded.start_all = Returned(EmptyDict)
       /\ \A n \in ServerNames :
             loaded.start[n].type # "none"
             => loaded.start[n] = Returned(FALSE)

\* A subscriber of the task updates is in the list and its peer is there.
TaskSubscriberConnected ==
    \E w \in Range(active_connections["tasks"]) : sock[w].peer

\* C34: while a subscriber of the task updates stays connected, a task that
\* has reached its final status is eventually in a snapshot that a round of
\* the task loop has sent, with that status.
C34_ChangeIsBroadcast ==
    \A t \in TaskIds :
        (TaskSubscriberConnected /\ t \in DOMAIN active_tasks /\ Terminal(t))
        ~> ( \/ ~TaskSubscriberConnected
             \/ /\ t \in DOMAIN loop["tasks"].sent
                /\ loop["tasks"].sent[t] = active_tasks[t] )

\* C35: once a task is completed its stored result never changes: the
\* result of a completed task is the same after every step, and so is the
\* configuration in the result of a completed deploy task.
C35_ResultImmutable ==
    [][\A t \in DOMAIN active_tasks :
          active_tasks[t].status = "completed"
          => /\ active_tasks'[t] = active_tasks[t]
             /\ t \in DeployCompleted
                => result_config(t)' = result_config(t)]_vars

\* C36: when the startup of the lifespan has initialised every agent, the
\* connectors of the agents together hold at most one live process for each
\* server name.
C36_OneProcessPerNameAcrossAgents ==
    lifespan.pc = "serving"
    => \A n \in ServerNames :
          Cardinality({p \in Live(n) :
              \E k \in DOMAIN LifespanAgents :
                  /\ n \in DOMAIN connector_of(k)
                  /\ connector_of(k)[n].process = p}) <= 1

\* C37: with one start_server and one stop_server in flight, from a name
\* tracked or untracked and under every interleaving, each call returns what
\* it returns when it runs alone, and the table at its return is the table
\* it leaves when it runs alone: start_server returns True exactly when the
\* name is tracked at its return, and stop_server returns True exactly when
\* the name is untracked at its return. The values returned and the final
\* table are those of the sequential order in which the two calls return.
C37_StartStopSerializable ==
    [][/\ Returns(test_mcp_connector, "start")
          => (call'[test_mcp_connector].ret
                 <=> call'[test_mcp_connector].name \in DOMAIN running_servers')
       /\ Returns(stopping_coroutine, "stop")
          => (call'[stopping_coroutine].ret
                 <=> call'[stopping_coroutine].name
                        \notin DOMAIN running_servers')]_vars

\* C37 witness, from a tracked name: stop_server has sent the termination
\* request and is suspended in its wait, and start_server has found the
\* entry and returned True without a launch.
C37_Witness ==
    /\ call[stopping_coroutine].pc = "wait"
    /\ call[stopping_coroutine].name = "filesystem"
    /\ procs[call[stopping_coroutine].proc].sig = "term"
    /\ call[test_mcp_connector].pc = "done"
    /\ call[test_mcp_connector].op = "start"
    /\ call[test_mcp_connector].name = "filesystem"
    /\ call[test_mcp_connector].ret
    /\ Tracked("filesystem")
    /\ Len(procs) = 1

\* C38: whenever start_server returns True, the name has an entry at the
\* return and the process of the entry is live: it has not exited and no
\* stop_server has sent it a signal.
C38_TrueMeansLive ==
    [][\A c \in Callers :
          (Returns(c, "start") /\ call'[c].ret)
          => /\ call'[c].name \in DOMAIN running_servers'
             /\ LET p == running_servers'[call'[c].name].process
                IN procs'[p].alive /\ procs'[p].sig = "none"]_vars

\* A send_text of a round of the task loop returns in this step, and the
\* peer of websocket w has received the round's snapshot.
Delivers(w) ==
    /\ loop["tasks"].pc = "send"
    /\ loop["tasks"].cur = w
    /\ sock[w].peer
    /\ loop'["tasks"].i # loop["tasks"].i
    /\ loop'["tasks"].err = NoSocket

\* C39: the task loop never delivers to a peer the snapshot it has last
\* delivered to that peer, also on the ticks after a round in which the
\* send to another peer raised.
C39_NoIdenticalSnapshot ==
    [][\A w \in Sockets :
          Delivers(w)
          => received[w] # [any |-> TRUE,
                              body |-> loop["tasks"].msg.body]]_vars

\* The last round of the task loop ended with a send_text that raised, the
\* loop is asleep, the list has a websocket and the table differs from
\* last_tasks.
RetryDue ==
    /\ loop["tasks"].pc = "sleep"
    /\ loop["tasks"].err # NoSocket
    /\ active_connections["tasks"] # <<>>
    /\ tasks_differ

\* C40: last_tasks is replaced only in the step that ends a round of the
\* task loop none of whose send_text calls raised; the step in which a
\* send_text raises leaves last_tasks as it is and puts the loop to sleep;
\* and after such a round, while the list has a websocket and the table
\* differs from last_tasks, a tick starts the broadcast again.
C40_RecordReplacedOnSuccess ==
    /\ [][/\ last_tasks' # last_tasks
             => /\ loop["tasks"].pc = "send"
                /\ loop'["tasks"].pc = "sleep"
                /\ loop'["tasks"].err = NoSocket
          /\ (loop["tasks"].pc = "send" /\ loop'["tasks"].err # NoSocket)
             => /\ last_tasks' = last_tasks
                /\ loop'["tasks"].pc = "sleep"]_vars
    /\ RetryDue ~> (loop["tasks"].pc = "send" \/ ~RetryDue)

\* C40 witness: a send_text of a round raised, the loop is asleep, and
\* last_tasks is still empty while the table has a task and the list a
\* websocket.
C40_Witness ==
    /\ RetryDue
    /\ last_tasks = EmptyDict
    /\ active_tasks # EmptyDict

====
